---------------------------- MODULE Spec2Model ----------------------------
(***************************************************************************)
(* Lexical decision task with visual masking (web version).                *)
(*                                                                         *)
(* A model of src/web/experiment.js: the welcome form and the start        *)
(* button, runExperiment (session creation, practice block, main block,    *)
(* midpoint break, end screen), runTrial (fixation, stimulus, mask,        *)
(* response window, feedback), the requestAnimationFrame scheduler         *)
(* showForDuration, the response collector waitForResponse, the Firestore  *)
(* sink, and the trial generator generateTrials.                           *)
(*                                                                         *)
(* Time is counted in ticks.  The display refreshes every `gap` ticks; an  *)
(* animation frame runs the requestAnimationFrame callbacks pending at     *)
(* that moment.  A setTimeout callback runs no earlier than its delay and  *)
(* at most MaxLate ticks later.  One browser task (a click, a key press,   *)
(* a tap, a frame, a timer, a network completion) runs its callbacks to    *)
(* completion, with the promise continuations they release, before the     *)
(* next task starts.                                                       *)
(***************************************************************************)
EXTENDS Integers, Sequences, FiniteSets, TLC

(***************************************************************************)
(* Bounds of the model.                                                    *)
(***************************************************************************)
\* runExperiment invocations (activations of the start button) in a behaviour
MaxRuns == 2
\* ticks by which a setTimeout callback may run after its delay has elapsed
MaxLate == 1
\* ticks between two display refreshes, at most
MaxGap == 2
\* the largest repetition count the welcome form may hold
MaxReps == 2

\* the attempts generateTrials makes at an order that passes the constraint
MaxAttempts == 2
\* the main trials of a session whose results the two aggregators are given
MaxResults == 2
MaxItems == 3

Runs == 1..MaxRuns

(***************************************************************************)
(* JavaScript values.  An optional value (null, or the empty string of a   *)
(* form field or of a result field) is a sequence of length at most one.   *)
(***************************************************************************)
None == <<>>
Some(x) == <<x>>

\* sessionDocId = null (experiment.js line 29)
NoId == 0

\* e.key.toLowerCase() on the keys a participant may press
toLowerCase(k) ==
    CASE k = "F" -> "f"
      [] k = "J" -> "j"
      [] OTHER -> k

\* toUpperCase() of a response key, for the prompt
toUpperCase(k) ==
    CASE k = "f" -> "F"
      [] k = "j" -> "J"
      [] OTHER -> k

\* String.prototype.trim on the subject ids the form may hold
trim(s) == IF s = " " THEN "" ELSE s

\* parseInt(field.value) || dflt : NaN (an empty or non-numeric field) and 0
\* are falsy and give the default
parseIntOr(v, dflt) == IF v = None \/ v[1] = 0 THEN dflt ELSE v[1]

\* (rt / 1000).toFixed(6): seconds with six decimals, held as microseconds;
\* one tick is one millisecond
toFixed6(rtMs) == rtMs * 1000

\* Array.prototype.slice(0, n)
slice0(s, n) == IF Len(s) <= n THEN s ELSE SubSeq(s, 1, n)


(***************************************************************************)
(* Configuration (CONFIG, experiment.js lines 34-85).  Durations are in    *)
(* ticks; the catalogs are cut down to a few items.                        *)
(***************************************************************************)
\* parseInt(...) || 500, || 150, || 2000, || 500 of applyFormParameters,
\* scaled to ticks
DefaultFixation == 2
DefaultMask == 1
DefaultTimeout == 3
DefaultFeedback == 2
\* parseInt(...) || 1
DefaultReps == 1
\* trials.slice(0, 10) and totalTrials = 10 of the developer mode, scaled to
\* the cut-down catalog
DevTrials == 2

Lexicalities == {"word", "pseudoword"}

\* the pages the participant sees (screens, lines 172-179)
Screens == {"welcome", "practiceIntro", "practiceDone", "break", "trial", "end"}

\* the phases of a trial, in the order runTrial runs them
PhaseOrder == <<"Fixation", "Stimulus", "Mask", "ResponseWindow", "Feedback">>

\* the phases showForDuration displays
ShowPhases == {"Fixation", "Stimulus", "Mask", "Feedback"}

\* the keys a participant may press: the two response keys in either case,
\* and a key bound to nothing
Keys == {"f", "j", "F", "J", "x"}

\* CONFIG as the module is loaded
InitialConfig(words, pseudowords, practiceItems, durations) ==
    [ words |-> words,
      pseudowords |-> pseudowords,
      practiceItems |-> practiceItems,
      durations |-> durations,
      fixationDuration |-> DefaultFixation,
      maskDuration |-> DefaultMask,
      responseTimeout |-> DefaultTimeout,
      feedbackDuration |-> DefaultFeedback,
      nReps |-> DefaultReps,
      maxSameLexInRow |-> 3,
      keyWord |-> "f",
      keyNonword |-> "j" ]

Item(stimulus, lexicality) == [stimulus |-> stimulus, lexicality |-> lexicality]

\* a trial object without its trial number
Trial(stimulus, lexicality, duration) ==
    [stimulus |-> stimulus, lexicality |-> lexicality, duration |-> duration]

\* the placeholder of a trial-valued local that holds nothing yet
NoTrial == Trial("", "", 0)

(***************************************************************************)
(* Trial generation (lines 91-159).                                        *)
(***************************************************************************)
\* generateMask: "#".repeat(stimulus.length), for the catalog's stimuli
StimulusLength(stimulus) ==
    CASE stimulus \in {"river", "sugar", "tible", "hause", "morle", "stome",
                       "waper", "hamen", "pamer", "waten"} -> 5
      [] stimulus = "" -> 0
      [] OTHER -> 6

generateMask(stimulus) == [i \in 1..StimulusLength(stimulus) |-> "#"]

\* the inner loops of generateTrials for one duration: the words, then the
\* pseudowords
PushStimuli(cfg, dur) ==
    [i \in 1..Len(cfg.words) |-> Trial(cfg.words[i], "word", dur)]
    \o [i \in 1..Len(cfg.pseudowords) |->
            Trial(cfg.pseudowords[i], "pseudoword", dur)]

\* for (const dur of CONFIG.durations), from the d-th duration on
RECURSIVE PushDurations(_, _)
PushDurations(cfg, d) ==
    IF d > Len(cfg.durations) THEN <<>>
    ELSE PushStimuli(cfg, cfg.durations[d]) \o PushDurations(cfg, d + 1)

\* for (let rep = 0; rep < CONFIG.nReps; rep++), from repetition rep on
RECURSIVE PushReps(_, _)
PushReps(cfg, rep) ==
    IF rep < cfg.nReps THEN PushDurations(cfg, 1) \o PushReps(cfg, rep + 1)
    ELSE <<>>

\* the list generateTrials holds before it shuffles
BuildTrials(cfg) == PushReps(cfg, 0)

\* an exchange that writes arr[i] only
swapOverwrites(arr, i, j) == [arr EXCEPT ![i + 1] = arr[j + 1]]

\* [arr[i], arr[j]] = [arr[j], arr[i]], with 0-based i and j
swap(arr, i, j) ==
    [arr EXCEPT ![i + 1] = arr[j + 1], ![j + 1] = arr[i + 1]]

\* every array shuffle(arr) can leave: the loop from index i down to 1, each
\* step swapping with some j in 0..i
RECURSIVE ShuffleFrom(_, _)
ShuffleFrom(arr, i) ==
    IF i <= 0 THEN {arr}
    ELSE UNION { ShuffleFrom(swap(arr, i, j), i - 1) : j \in 0..i }

shuffle(arr) == ShuffleFrom(arr, Len(arr) - 1)

\* checkLexConstraint: the loop of lines 108-115 from index i with the
\* running count
RECURSIVE LexLoop(_, _, _, _)
LexLoop(trials, maxRun, i, count) ==
    IF i >= Len(trials) THEN TRUE
    ELSE IF trials[i + 1].lexicality = trials[i].lexicality
         THEN IF count + 1 > maxRun THEN FALSE
              ELSE LexLoop(trials, maxRun, i + 1, count + 1)
         ELSE LexLoop(trials, maxRun, i + 1, 1)

\* a check that lets a run of maxRun + 1 pass
checkLexOneMore(trials, maxRun) == LexLoop(trials, maxRun + 1, 1, 1)

checkLexConstraint(trials, maxRun) == LexLoop(trials, maxRun, 1, 1)

\* trials.forEach((t, i) => { t.trialNumber = i })
AddTrialNumbers(trials) ==
    [i \in 1..Len(trials) |->
        [stimulus |-> trials[i].stimulus,
         lexicality |-> trials[i].lexicality,
         duration |-> trials[i].duration,
         trialNumber |-> i - 1]]

\* every list generateTrials can return: an order that passes the
\* constraint ends the retry loop, and an order that fails it is returned
\* when it is the last of the 1000 attempts
generateTrials(cfg) ==
    { AddTrialNumbers(t) : t \in shuffle(BuildTrials(cfg)) }

\* a split that gives the first floor(n/2) items the first duration
PracticeBaseFloor(cfg) ==
    LET items == cfg.practiceItems
        half == Len(items) \div 2
    IN  [i \in 1..Len(items) |->
            Trial(items[i].stimulus, items[i].lexicality,
                  IF i - 1 < half THEN cfg.durations[1]
                  ELSE cfg.durations[Len(cfg.durations)])]

\* the list of lines 148-156: the items with their durations, in catalog order
PracticeBase(cfg) ==
    LET items == cfg.practiceItems
        half == (Len(items) + 1) \div 2
    IN  [i \in 1..Len(items) |->
            Trial(items[i].stimulus, items[i].lexicality,
                  IF i - 1 < half THEN cfg.durations[1]
                  ELSE cfg.durations[Len(cfg.durations)])]

generatePracticeTrials(cfg) == shuffle(PracticeBase(cfg))


(***************************************************************************)
(* Scoring and the result object of runTrial (lines 341-364), and the CSV  *)
(* table (lines 371-375, 641-651).                                         *)
(***************************************************************************)
\* const timedOut = key === null
timedOut(key) == key = None

\* the expected key with the two lexicalities exchanged
expectedKeyExchanged(cfg, info) ==
    IF info.lexicality = "word" THEN cfg.keyNonword ELSE cfg.keyWord

\* const expected = trialInfo.lexicality === "word" ? keyWord : keyNonword
expectedKey(cfg, info) ==
    IF info.lexicality = "word" THEN cfg.keyWord ELSE cfg.keyNonword

\* const correct = !timedOut && key === expected
isCorrect(cfg, info, key) ==
    ~timedOut(key) /\ key[1] = expectedKey(cfg, info)

\* the feedback text, lines 348-351
feedbackText(key, correct) ==
    IF timedOut(key) THEN "Too slow!"
    ELSE IF correct THEN "Correct!" ELSE "Incorrect."

\* the object runTrial returns, lines 357-364; cfg is CONFIG as it is when
\* the function returns, and correct was computed before the feedback
trialResult(cfg, info, key, rt, correct) ==
    [ stimulus |-> info.stimulus,
      lexicality |-> info.lexicality,
      duration |-> info.duration,
      response |-> IF timedOut(key) THEN None
                   ELSE IF key[1] = cfg.keyWord THEN Some(1) ELSE Some(0),
      RT |-> IF timedOut(key) THEN None ELSE Some(toFixed6(rt[1])),
      accuracy |-> IF correct THEN 1 ELSE 0 ]

\* a result numbered from 1
mainResultFromOne(result, i, subjId) ==
    [ stimulus |-> result.stimulus,
      lexicality |-> result.lexicality,
      duration |-> result.duration,
      response |-> result.response,
      RT |-> result.RT,
      accuracy |-> result.accuracy,
      trialNumber |-> i + 1,
      subject |-> subjId ]

\* result.trialNumber = i; result.subject = subjId (lines 617-618)
mainResult(result, i, subjId) ==
    [ stimulus |-> result.stimulus,
      lexicality |-> result.lexicality,
      duration |-> result.duration,
      response |-> result.response,
      RT |-> result.RT,
      accuracy |-> result.accuracy,
      trialNumber |-> i,
      subject |-> subjId ]

\* the columns of the exported table, lines 641-650
Columns ==
    << "subject", "trialNumber", "stimulus", "lexicality", "duration",
       "response", "RT", "accuracy" >>

\* row[c] ?? "" : a field the row lacks is exported empty
cell(row, c) == IF c \in DOMAIN row THEN row[c] ELSE None

\* toCSV(rows, columns): the header, then one line per row
toCSV(rows, columns) ==
    << columns >>
    \o [i \in 1..Len(rows) |-> [c \in 1..Len(columns) |-> cell(rows[i], columns[c])]]

\* [...new Set(results.map((r) => r.duration))] of computeSummary
resultDurations(results) == { results[i].duration : i \in 1..Len(results) }

\* populateSummary reads cells.word[durations[0]] and cells.word[durations[1]]:
\* with fewer than two distinct durations among the results the second is
\* undefined and reading its .acc throws a TypeError
populateSummaryThrows(results) == Cardinality(resultDurations(results)) < 2

\* a mean: the quotient of a sum and a count, kept as the pair
Ratio(num, den) == [num |-> num, den |-> den]

\* the number 0
Zero == Ratio(0, 1)

\* subset.reduce((s, r) => s + parseFloat(r.RT), 0) on trials that have an RT
RECURSIVE SumRT(_)
SumRT(subset) ==
    IF subset = {} THEN 0
    ELSE LET t == CHOOSE x \in subset : TRUE
         IN  t.RT[1] + SumRT(subset \ {t})

\* subset.reduce((s, r) => s + r.accuracy, 0): accuracy is 0 or 1
SumAccuracy(subset) == Cardinality({ t \in subset : t.accuracy = 1 })

\* a stats whose mean RT is taken over every trial that has an RT
statsEveryRT(subset) ==
    LET n == Cardinality(subset)
        timed == { t \in subset : t.RT # None }
    IN  IF n = 0
        THEN [acc |-> Some(Zero), rt |-> None, n |-> 0]
        ELSE [acc |-> Some(Ratio(SumAccuracy(subset), n)),
              rt |-> IF timed # {}
                     THEN Some(Ratio(SumRT(timed), Cardinality(timed)))
                     ELSE None,
              n |-> n]

\* stats(subset) of computeSummary (lines 461-471); null is None
stats(subset) ==
    LET n == Cardinality(subset)
        correct == { t \in subset : t.accuracy = 1 /\ t.RT # None }
    IN  IF n = 0
        THEN [acc |-> Some(Zero), rt |-> None, n |-> 0]
        ELSE [acc |-> Some(Ratio(SumAccuracy(subset), n)),
              rt |-> IF correct # {}
                     THEN Some(Ratio(SumRT(correct), Cardinality(correct)))
                     ELSE None,
              n |-> n]

\* computeSummary(results) (lines 455-497).  The results of a session differ
\* in their trialNumber, so that the set of them has every one.
computeSummary(results) ==
    LET all == { results[i] : i \in 1..Len(results) }
        durations == resultDurations(results)
    IN  [ durations |-> durations,
          cells |-> [lex \in Lexicalities |->
                       [dur \in durations |->
                          stats({ t \in all : t.lexicality = lex
                                                /\ t.duration = dur })]],
          byLex |-> [lex \in Lexicalities |->
                       stats({ t \in all : t.lexicality = lex })],
          byDur |-> [dur \in durations |->
                       stats({ t \in all : t.duration = dur })] ]

(***************************************************************************)
(* The state of the program and of its environment.                        *)
(***************************************************************************)
VARIABLES
    CONFIG,            \* the mutable global configuration object
    form,              \* the fields of the welcome form
    sessionDocId,      \* the module-level session document id
    activeScreen,      \* the screen that carries the class "active"
    trialContent,      \* innerHTML of the trial area: <<run, phase>> written last
    awaitingResponse,  \* the body class "awaiting-response"
    runs,              \* the locals of each runExperiment invocation
    nextRun,           \* how many times runExperiment has been invoked
    shows,             \* the showForDuration promises not yet resolved
    win,               \* per run, the closure of its latest waitForResponse
    gate,              \* per run, the closure of its latest waitForAnyResponseKey
    listeners,         \* the registered event listeners
    timers,            \* the runs whose response timeout is pending
    todo,              \* the callbacks the current browser task has yet to run
    sinceFrame,        \* ticks since the last display refresh
    env,               \* the display's refresh gap, the timer lateness, the clicks
    sessions,          \* the sink's session documents, by id
    trialDocs,         \* the sink's trial documents
    ops,               \* the sink operations in flight
    gen,               \* the state of a stand-alone generateTrials call
    dash,              \* the dashboard page: its variables, timers and display
    hist               \* history variables, read by the properties only

vars ==
    << CONFIG, form, sessionDocId, activeScreen, trialContent, awaitingResponse,
       runs, nextRun, shows, win, gate, listeners, timers, todo, sinceFrame,
       env, dash, sessions, trialDocs, ops, gen, hist >>

\* the variables of the sink
sinkVars == << sessions, trialDocs, ops >>

\* the variables of the response collector and the gates
inputVars == << win, gate, listeners, timers, awaitingResponse >>

\* the locals of a runExperiment invocation that has not started
IdleRun ==
    [ pc |-> "idle", subjId |-> "", includePractice |-> FALSE,
      devMode |-> FALSE, totalTrials |-> 0, results |-> <<>>,
      practiceTrials |-> <<>>, k |-> 0, trials |-> <<>>, midpoint |-> 0,
      i |-> 0, phase |-> "none", trialInfo |-> NoTrial, key |-> None,
      rt |-> None, correct |-> FALSE, summary |-> None,
      csv |-> None ]

\* the closure of a waitForResponse call that was never made
NoWindow ==
    [ open |-> FALSE, resolved |-> FALSE, elapsed |-> 0, timeout |-> 0 ]

\* the history of a run: the phases its current trial entered and saw
\* complete, the resolve calls and the timer callbacks of its latest response
\* window, what the collector emitted for each main trial, the object its
\* latest runTrial returned, the trial writes it issued, the sink operations
\* of its that failed
NoHistory ==
    [ entered |-> <<>>, completed |-> <<>>, emitted |-> <<>>, fired |-> 0,
      observed |-> <<>>, produced |-> None, writes |-> 0, failed |-> FALSE,
      gates |-> <<>>, closed |-> 0, quit |-> <<>>, early |-> <<>>,
      swap |-> FALSE ]

\* the stand-alone generator before its call
GenIdle == [pc |-> "idle", trials |-> <<>>, i |-> 0, attempt |-> 0]


(***************************************************************************)
(* The welcome form and the start button (lines 393-408, 564-586,          *)
(* 663-665).                                                               *)
(***************************************************************************)
\* applyFormParameters: the five numeric fields, then the swap of the keys,
\* which is applied when the box is checked and never undone
applyFormParameters(cfg, f) ==
    LET numeric ==
            [cfg EXCEPT
                !.nReps = parseIntOr(f.reps, DefaultReps),
                !.fixationDuration = parseIntOr(f.fixDur, DefaultFixation),
                !.maskDuration = parseIntOr(f.maskDur, DefaultMask),
                !.responseTimeout = parseIntOr(f.timeout, DefaultTimeout),
                !.feedbackDuration = parseIntOr(f.fbDur, DefaultFeedback)]
    IN  IF f.swap
        THEN [numeric EXCEPT !.keyWord = "j", !.keyNonword = "f"]
        ELSE numeric

\* a total that counts each stimulus once, whatever the durations
totalTrialsPerStimulus(cfg, devMode) ==
    IF devMode THEN DevTrials
    ELSE cfg.nReps * (Len(cfg.words) + Len(cfg.pseudowords))

\* const totalTrials = devMode ? 10 : nReps * (words + pseudowords) * durations
totalTrialsOf(cfg, devMode) ==
    IF devMode THEN DevTrials
    ELSE cfg.nReps * (Len(cfg.words) + Len(cfg.pseudowords)) * Len(cfg.durations)

\* a sink operation in flight
Op(kind, r, sid, n, payload) ==
    [kind |-> kind, run |-> r, sid |-> sid, n |-> n, payload |-> payload]

\* the session document createSession adds (lines 415-422)
SessionDoc(username, totalTrials) ==
    [ username |-> username, status |-> "in_progress",
      totalTrials |-> totalTrials, completedTrials |-> 0 ]

\* the trial document saveTrialToFirestore adds (lines 427-438)
TrialDoc(sid, username, result) ==
    [ sessionId |-> sid, username |-> username,
      trialNumber |-> result.trialNumber, stimulus |-> result.stimulus,
      lexicality |-> result.lexicality, duration |-> result.duration,
      response |-> result.response, RT |-> result.RT,
      accuracy |-> result.accuracy ]

\* the payload of a sink operation that carries none
NoPayload == <<>>

\* the participant edits the welcome form while it is on screen: the subject
\* id, the swap box, the practice box
EditForm ==
    /\ activeScreen = "welcome"
    /\ todo = {}
    /\ nextRun < env.clicks
    /\ \E id \in env.subjects, sw \in env.swaps, pr \in env.practice :
          /\ form' = [form EXCEPT !.subjectId = id, !.swap = sw, !.practice = pr]
          /\ form' # form
    /\ UNCHANGED << CONFIG, sessionDocId, activeScreen, trialContent, runs,
                    nextRun, shows, inputVars, todo, sinceFrame, env, dash,
                    sinkVars, gen, hist >>

\* a click on the start button, which is on the welcome screen: the handler
\* calls runExperiment, which runs up to its first await
StartClick ==
    /\ activeScreen = "welcome"
    /\ todo = {}
    /\ nextRun < env.clicks
    /\ LET r == nextRun + 1
           cfg == applyFormParameters(CONFIG, form)
           subjId == trim(form.subjectId)
           total == totalTrialsOf(cfg, form.devMode)
       IN  /\ nextRun' = r
           /\ CONFIG' = cfg
           /\ IF subjId = ""
              THEN /\ runs' = [runs EXCEPT ![r].pc = "aborted"]
                   /\ ops' = ops
              ELSE /\ runs' = [runs EXCEPT
                                 ![r].pc = "create",
                                 ![r].subjId = subjId,
                                 ![r].includePractice = form.practice,
                                 ![r].devMode = form.devMode,
                                 ![r].totalTrials = total]
                   /\ ops' = ops \cup
                               {Op("createSession", r, NoId, 0,
                                   SessionDoc(subjId, total))}
           /\ hist' = [hist EXCEPT ![r].swap = form.swap]
    /\ UNCHANGED << form, sessionDocId, activeScreen, trialContent, shows,
                    inputVars, todo, sinceFrame, env, dash, sessions, trialDocs,
                    gen >>

(***************************************************************************)
(* The steps runExperiment takes when a promise it awaits resolves.  Each  *)
(* takes the run's locals rec and history h as they are at that point,     *)
(* and the sets the step has changed so far, and sets the next value of    *)
(* runs, hist, shows, listeners, gate, ops, activeScreen, trialContent.    *)
(***************************************************************************)
ShowOf(r, phase, dur) ==
    [run |-> r, phase |-> phase, dur |-> dur, started |-> FALSE, elapsed |-> 0]

Listener(r, fn) == [run |-> r, fn |-> fn]

\* runTrial up to its first await (lines 313-320): the trial screen, then the
\* fixation cross
EnterTrial(r, rec, h, info, S, L, G, O) ==
    /\ activeScreen' = "trial"
    /\ trialContent' = << r, "Fixation" >>
    /\ shows' = S \cup {ShowOf(r, "Fixation", CONFIG.fixationDuration)}
    /\ runs' = [runs EXCEPT ![r] =
                   [rec EXCEPT !.phase = "Fixation", !.trialInfo = info,
                               !.key = None, !.rt = None, !.correct = FALSE]]
    /\ hist' = [hist EXCEPT ![r] =
                   [h EXCEPT !.entered = << "Fixation" >>, !.completed = <<>>,
                             !.produced = None]]
    /\ listeners' = L
    /\ gate' = G
    /\ ops' = O

\* showScreen(name); await waitForAnyResponseKey() (lines 274-303): the gate
\* listens for a key press and for a tap on the continue buttons
EnterGate(r, rec, h, screen, S, L, G, O) ==
    /\ activeScreen' = screen
    /\ listeners' = L \cup {Listener(r, "gateKey"), Listener(r, "gateTap")}
    /\ gate' = [G EXCEPT ![r] = [open |-> TRUE, resolved |-> FALSE]]
    /\ runs' = [runs EXCEPT ![r] = [rec EXCEPT !.pc = screen, !.phase = "none"]]
    /\ hist' = [hist EXCEPT ![r] =
                   [h EXCEPT !.gates = Append(@, << screen, rec.i >>)]]
    /\ shows' = S
    /\ ops' = O
    /\ UNCHANGED trialContent

\* after the last trial (lines 629-657): the finalize update is dispatched,
\* the summary is filled in, the end screen is shown and the table is built
Finish(r, rec, h, S, L, G, O) ==
    /\ ops' = IF sessionDocId' # NoId
              THEN O \cup {Op("complete", r, sessionDocId', 0, NoPayload)}
              ELSE O
    /\ IF populateSummaryThrows(rec.results)
       THEN /\ runs' = [runs EXCEPT ![r] =
                           [rec EXCEPT !.pc = "threw", !.phase = "none"]]
            /\ UNCHANGED activeScreen
       ELSE /\ runs' = [runs EXCEPT ![r] =
                           [rec EXCEPT !.pc = "end", !.phase = "none",
                                       !.summary = Some(computeSummary(rec.results)),
                                       !.csv = Some(toCSV(rec.results, Columns))]]
            /\ activeScreen' = "end"
    /\ hist' = [hist EXCEPT ![r] = h]
    /\ shows' = S
    /\ listeners' = L
    /\ gate' = G
    /\ UNCHANGED trialContent

\* runTrial(trials[i]) of the main loop, line 616
RunMainTrial(r, rec, h, S, L, G, O) ==
    EnterTrial(r, [rec EXCEPT !.pc = "main"], h, rec.trials[rec.i + 1], S, L, G, O)

\* a loop head that does not look at the repetitions
LoopHeadAlwaysBreaks(r, rec, h, S, L, G, O) ==
    IF rec.i < Len(rec.trials)
    THEN IF rec.i = rec.midpoint
         THEN EnterGate(r, rec, h, "break", S, L, G, O)
         ELSE RunMainTrial(r, rec, h, S, L, G, O)
    ELSE Finish(r, rec, h, S, L, G, O)

\* the head of the main loop (lines 609-614) with the index rec.i
LoopHead(r, rec, h, S, L, G, O) ==
    IF rec.i < Len(rec.trials)
    THEN IF CONFIG.nReps > 1 /\ rec.i = rec.midpoint
         THEN EnterGate(r, rec, h, "break", S, L, G, O)
         ELSE RunMainTrial(r, rec, h, S, L, G, O)
    ELSE Finish(r, rec, h, S, L, G, O)

\* the main block (lines 603-609): the sequence is generated once, cut in
\* developer mode, and the loop starts at index 0
StartMain(r, rec, h, S, L, G, O) ==
    \E generated \in generateTrials(CONFIG) :
        LET trials == IF rec.devMode THEN slice0(generated, DevTrials)
                      ELSE generated
        IN  LoopHead(r, [rec EXCEPT !.trials = trials,
                                    !.midpoint = Len(trials) \div 2,
                                    !.i = 0],
                     h, S, L, G, O)

\* the practice loop (lines 594-599) with the index rec.k
PracticeHead(r, rec, h, S, L, G, O) ==
    IF rec.k < Len(rec.practiceTrials)
    THEN EnterTrial(r, [rec EXCEPT !.pc = "practice"], h,
                    rec.practiceTrials[rec.k + 1], S, L, G, O)
    ELSE EnterGate(r, rec, h, "practiceDone", S, L, G, O)

\* after createSession settled (lines 588-603)
AfterCreate(r, rec, h, S, L, G, O) ==
    IF rec.includePractice
    THEN EnterGate(r, rec, h, "practiceIntro", S, L, G, O)
    ELSE StartMain(r, rec, h, S, L, G, O)

\* after a gate resolved: the practice trials are generated after the first,
\* the main block starts after the second, the midpoint trial runs after the
\* break
AfterGate(r, rec, h, S, L, G, O) ==
    CASE rec.pc = "practiceIntro" ->
            \E pts \in generatePracticeTrials(CONFIG) :
                PracticeHead(r, [rec EXCEPT !.practiceTrials = pts, !.k = 0],
                             h, S, L, G, O)
      [] rec.pc = "practiceDone" -> StartMain(r, rec, h, S, L, G, O)
      [] rec.pc = "break" -> RunMainTrial(r, rec, h, S, L, G, O)


(***************************************************************************)
(* The response collector, waitForResponse (lines 216-268).                *)
(***************************************************************************)
ResponseListeners(r) ==
    {Listener(r, "onKey"), Listener(r, "onTapWord"), Listener(r, "onTapNonword")}

\* cleanup() that forgets the listener of the nonword button
cleanupKeyAndWord(L, r) ==
    L \ {Listener(r, "onKey"), Listener(r, "onTapWord")}

\* cleanup(): the three listeners are removed (lines 225-227)
cleanupListeners(L, r) == L \ ResponseListeners(r)

\* cleanup(): clearTimeout(timer) (line 228)
cleanupTimer(T, r) == T \ {r}

\* performance.now() - startTime (line 235)
responseTime(w) == w.elapsed

\* a timer that runs its callback one tick before its delay has elapsed
timeoutEarly(w) == w.elapsed + 1 >= w.timeout

\* the delay of the timeout has elapsed: its callback may run
timeoutDue(w) == w.elapsed >= w.timeout

\* for the history: the callback of run r the current task is running, as
\* <<function, key>>; the timeout's callback runs in a task of its own
Running(r) ==
    IF \E c \in todo : c.run = r
    THEN LET c == CHOOSE x \in todo : x.run = r IN << c.fn, c.arg >>
    ELSE << "timeout", "" >>

\* resolve({ key, rt }) and, when the promise was pending, what runTrial does
\* next (lines 336-355): it scores the response and shows the feedback.  L
\* and T are the listeners and timers the caller leaves.
Resolve(r, key, rt, L, T, A) ==
    LET w == win[r]
        rec == runs[r]
        correct == isCorrect(CONFIG, rec.trialInfo, key)
        called == [hist[r] EXCEPT
                      !.emitted = Append(@, [key |-> key, rt |-> rt,
                                             at |-> w.elapsed, by |-> Running(r)]),
                      !.fired = IF key = None THEN @ + 1 ELSE @]
    IN  /\ listeners' = L
        /\ timers' = T
        /\ awaitingResponse' = A
        /\ win' = [win EXCEPT ![r].resolved = TRUE, ![r].open = FALSE]
        /\ IF w.open /\ rec.phase = "ResponseWindow"
           THEN /\ runs' = [runs EXCEPT ![r].key = key, ![r].rt = rt,
                                        ![r].correct = correct,
                                        ![r].phase = "Feedback"]
                /\ shows' = shows \cup
                              {ShowOf(r, "Feedback", CONFIG.feedbackDuration)}
                /\ trialContent' = << r, "Feedback" >>
                /\ hist' = [hist EXCEPT ![r] =
                              [called EXCEPT
                                  !.entered = Append(@, "Feedback"),
                                  !.completed =
                                      Append(@, [phase |-> "ResponseWindow",
                                                 dur |-> w.timeout,
                                                 elapsed |-> w.elapsed])]]
           ELSE /\ hist' = [hist EXCEPT ![r] = called]
                /\ UNCHANGED << runs, shows, trialContent >>
        /\ UNCHANGED << gate, ops, activeScreen >>

\* the step of a callback that changes nothing of the trial
NoEffect ==
    UNCHANGED << runs, hist, shows, trialContent, win, listeners, timers,
                 awaitingResponse, gate, ops, activeScreen >>

\* respond(key) without its once-only flag and without its teardown
respondEveryTime(r, key) ==
    Resolve(r, Some(key), Some(responseTime(win[r])), listeners, timers, FALSE)

\* respond(key) that removes no listener
respondKeepListeners(r, key) ==
    IF win[r].resolved THEN NoEffect
    ELSE Resolve(r, Some(key), Some(responseTime(win[r])),
                 listeners, cleanupTimer(timers, r), FALSE)

\* respond(key) (lines 231-236): once only; the teardown comes before the
\* promise is resolved
respond(r, key) ==
    IF win[r].resolved THEN NoEffect
    ELSE Resolve(r, Some(key), Some(responseTime(win[r])),
                 cleanupListeners(listeners, r), cleanupTimer(timers, r), FALSE)

\* the callback of the timeout (lines 261-266); a timer that has run is no
\* longer pending
onTimeout(r) ==
    IF win[r].resolved
    THEN /\ timers' = timers \ {r}
         /\ hist' = [hist EXCEPT ![r].fired = @ + 1]
         /\ UNCHANGED << runs, shows, trialContent, win, listeners,
                         awaitingResponse, gate, ops, activeScreen >>
    ELSE Resolve(r, None, None, cleanupListeners(listeners, r),
                 cleanupTimer(timers \ {r}, r), FALSE)

\* onKey(e) (lines 239-243)
onKey(r, key) ==
    LET k == toLowerCase(key)
    IN  IF k = CONFIG.keyWord THEN respond(r, CONFIG.keyWord)
        ELSE IF k = CONFIG.keyNonword THEN respond(r, CONFIG.keyNonword)
        ELSE NoEffect

\* onTapWord(e), onTapNonword(e) (lines 249-256)
onTapWord(r) == respond(r, CONFIG.keyWord)

onTapNonword(r) == respond(r, CONFIG.keyNonword)

\* waitForResponse(prompt, timeoutMs) up to the return of its promise: the
\* prompt, the body class, the start time, the listeners, the timer
OpenWindow(r, S) ==
    /\ trialContent' = << r, "ResponseWindow" >>
    /\ awaitingResponse' = TRUE
    /\ win' = [win EXCEPT ![r] =
                  [open |-> TRUE, resolved |-> FALSE, elapsed |-> 0,
                   timeout |-> CONFIG.responseTimeout]]
    /\ listeners' = listeners \cup ResponseListeners(r)
    /\ timers' = timers \cup {r}
    /\ shows' = S
    /\ runs' = [runs EXCEPT ![r].phase = "ResponseWindow"]
    /\ UNCHANGED << gate, ops, activeScreen >>

(***************************************************************************)
(* The gate, waitForAnyResponseKey (lines 274-303).                        *)
(***************************************************************************)
GateListeners(r) == {Listener(r, "gateKey"), Listener(r, "gateTap")}

\* done(): once only; the listeners are removed and runExperiment goes on
gateDone(r) ==
    IF gate[r].resolved THEN NoEffect
    ELSE /\ AfterGate(r, runs[r], hist[r], shows,
                      listeners \ GateListeners(r),
                      [gate EXCEPT ![r] = [open |-> FALSE, resolved |-> TRUE]],
                      ops)
         /\ UNCHANGED << win, timers, awaitingResponse >>

\* onKey(e) of the gate (lines 289-292)
gateKey(r, key) ==
    LET k == toLowerCase(key)
    IN  IF k = CONFIG.keyWord \/ k = CONFIG.keyNonword THEN gateDone(r)
        ELSE NoEffect


(***************************************************************************)
(* The phase scheduler, showForDuration (lines 195-210), and runTrial      *)
(* (lines 313-365).                                                        *)
(***************************************************************************)
\* if (startTime === null) startTime = timestamp
frameStart(w) == IF w.started THEN w ELSE [w EXCEPT !.started = TRUE, !.elapsed = 0]

\* a frame test that lets the promise resolve one tick short of the duration
frameAlmostDone(w) == w.elapsed + 1 >= w.dur

\* timestamp - startTime >= durationMs
frameDone(w) == w.elapsed >= w.dur

\* what the history keeps of a phase whose promise runTrial saw resolve
Completed(w) == [phase |-> w.phase, dur |-> w.dur, elapsed |-> w.elapsed]

\* runTrial after the mask (lines 335-339): the response window
AfterMask(r, S, w) ==
    /\ OpenWindow(r, S)
    /\ hist' = [hist EXCEPT ![r].entered = Append(@, "ResponseWindow"),
                            ![r].completed = Append(@, Completed(w)),
                            ![r].emitted = <<>>,
                            ![r].fired = 0]

\* runTrial that does not await the mask: the mask is drawn and the response
\* window is opened in the same step
AfterStimulusNoAwait(r, S, w) ==
    /\ OpenWindow(r, S \cup {ShowOf(r, "Mask", CONFIG.maskDuration)})
    /\ hist' = [hist EXCEPT ![r].entered = Append(Append(@, "Mask"), "ResponseWindow"),
                            ![r].completed = Append(@, Completed(w)),
                            ![r].emitted = <<>>,
                            ![r].fired = 0]

\* runTrial after the stimulus (lines 328-333): the mask
AfterStimulus(r, S, w) ==
    /\ trialContent' = << r, "Mask" >>
    /\ shows' = S \cup {ShowOf(r, "Mask", CONFIG.maskDuration)}
    /\ runs' = [runs EXCEPT ![r].phase = "Mask"]
    /\ hist' = [hist EXCEPT ![r].entered = Append(@, "Mask"),
                            ![r].completed = Append(@, Completed(w))]
    /\ UNCHANGED << win, listeners, timers, awaitingResponse, gate, ops,
                    activeScreen >>

\* runTrial after the fixation (lines 322-326): the stimulus, for the
\* trial's duration
AfterFixation(r, S, w) ==
    /\ trialContent' = << r, "Stimulus" >>
    /\ shows' = S \cup {ShowOf(r, "Stimulus", runs[r].trialInfo.duration)}
    /\ runs' = [runs EXCEPT ![r].phase = "Stimulus"]
    /\ hist' = [hist EXCEPT ![r].entered = Append(@, "Stimulus"),
                            ![r].completed = Append(@, Completed(w))]
    /\ UNCHANGED << win, listeners, timers, awaitingResponse, gate, ops,
                    activeScreen >>

\* saveTrialToFirestore(subjId, result), dispatched when sessionDocId is set
\* (lines 622-626): the addDoc of the trial document, with the session id
\* read at the call
dispatchTrialWrite(O, r, subjId, result) ==
    IF sessionDocId # NoId
    THEN O \cup {Op("addTrial", r, sessionDocId, result.trialNumber,
                    TrialDoc(sessionDocId, subjId, result))}
    ELSE O

\* a practice loop that keeps and writes its results as the main loop does
AfterFeedbackKeepsPractice(r, S, w) ==
    LET rec == runs[r]
        result == trialResult(CONFIG, rec.trialInfo, rec.key, rec.rt, rec.correct)
        numbered == mainResult(result, Len(rec.results), rec.subjId)
        h == [hist[r] EXCEPT !.completed = Append(@, Completed(w)),
                             !.produced = Some(result)]
        O == dispatchTrialWrite(ops, r, rec.subjId, numbered)
    IN  /\ UNCHANGED << win, timers, awaitingResponse >>
        /\ IF rec.pc = "practice"
           THEN PracticeHead(r, [rec EXCEPT !.results = Append(@, numbered),
                                            !.k = @ + 1, !.phase = "none"],
                             h, S, listeners, gate, O)
           ELSE LoopHead(r,
                         [rec EXCEPT !.results = Append(@, numbered),
                                     !.i = @ + 1, !.phase = "none"],
                         [h EXCEPT
                             !.observed = Append(@, [key |-> rec.key, rt |-> rec.rt]),
                             !.writes = IF sessionDocId # NoId THEN @ + 1 ELSE @],
                         S, listeners, gate, O)

\* runTrial after the feedback: it returns its result (lines 357-364).  In
\* the practice block the result is dropped (line 595); in the main block
\* it is numbered, appended and written to the sink (lines 616-626).  Then
\* the loop goes on.
AfterFeedback(r, S, w) ==
    LET rec == runs[r]
        result == trialResult(CONFIG, rec.trialInfo, rec.key, rec.rt, rec.correct)
        numbered == mainResult(result, rec.i, rec.subjId)
        h == [hist[r] EXCEPT !.completed = Append(@, Completed(w)),
                             !.produced = Some(result)]
    IN  /\ UNCHANGED << win, timers, awaitingResponse >>
        /\ IF rec.pc = "practice"
           THEN PracticeHead(r, [rec EXCEPT !.k = @ + 1, !.phase = "none"], h,
                             S, listeners, gate, ops)
           ELSE LoopHead(r,
                         [rec EXCEPT !.results = Append(@, numbered),
                                     !.i = @ + 1, !.phase = "none"],
                         [h EXCEPT
                             !.observed = Append(@, [key |-> rec.key, rt |-> rec.rt]),
                             !.writes = IF sessionDocId # NoId THEN @ + 1 ELSE @],
                         S, listeners, gate,
                         dispatchTrialWrite(ops, r, rec.subjId, numbered))

\* frame(timestamp) of a showForDuration call (lines 200-207): the first
\* frame sets the start time; the promise resolves at the first frame at
\* which the duration has elapsed, and runTrial, when it awaits this promise,
\* goes on to its next phase
frame(r, phase) ==
    LET w0 == CHOOSE x \in shows : x.run = r /\ x.phase = phase
        w == frameStart(w0)
        S == shows \ {w0}
    IN  IF ~frameDone(w)
        THEN /\ shows' = S \cup {w}
             /\ UNCHANGED << runs, hist, trialContent, win, listeners, timers,
                             awaitingResponse, gate, ops, activeScreen >>
        ELSE IF runs[r].phase # phase
        THEN /\ shows' = S
             /\ UNCHANGED << runs, hist, trialContent, win, listeners, timers,
                             awaitingResponse, gate, ops, activeScreen >>
        ELSE CASE phase = "Fixation" -> AfterFixation(r, S, w)
               [] phase = "Stimulus" -> AfterStimulus(r, S, w)
               [] phase = "Mask" -> AfterMask(r, S, w)
               [] phase = "Feedback" -> AfterFeedback(r, S, w)

(***************************************************************************)
(* Browser tasks.  An event puts the callbacks registered for it in todo;  *)
(* each runs to completion; a listener removed meanwhile is not called.    *)
(***************************************************************************)
Callback(r, fn, arg) == [run |-> r, fn |-> fn, arg |-> arg]

Dispatch(fns, arg) ==
    { Callback(l.run, l.fn, arg) : l \in { x \in listeners : x.fn \in fns } }

\* the variables a callback leaves alone
callbackFrame ==
    UNCHANGED << CONFIG, form, sessionDocId, nextRun, sinceFrame, env, dash,
                 sessions, trialDocs, gen >>

\* the variables an event, a tick or a refresh leaves alone
eventFrame ==
    UNCHANGED << CONFIG, form, sessionDocId, activeScreen, trialContent,
                 awaitingResponse, runs, nextRun, gate, listeners, timers,
                 env, dash, sinkVars, gen, hist >>

\* one tick of the clock, between two refreshes and while no timeout is
\* overdue by MaxLate
Tick ==
    /\ todo = {}
    /\ sinceFrame < env.gap
    /\ \A r \in timers : win[r].elapsed < win[r].timeout + env.late
    /\ sinceFrame' = sinceFrame + 1
    /\ shows' = { IF w.started THEN [w EXCEPT !.elapsed = @ + 1] ELSE w : w \in shows }
    /\ win' = [r \in Runs |->
                 IF win[r].open THEN [win[r] EXCEPT !.elapsed = @ + 1] ELSE win[r]]
    /\ UNCHANGED todo
    /\ eventFrame

\* a display refresh: the pending requestAnimationFrame callbacks are run
AnimationFrame ==
    /\ todo = {}
    /\ sinceFrame = env.gap
    /\ sinceFrame' = 0
    /\ todo' = { Callback(w.run, "frame", w.phase) : w \in shows }
    /\ UNCHANGED << shows, win >>
    /\ eventFrame

\* a key press
KeyDown ==
    /\ todo = {}
    /\ \E k \in Keys : todo' = Dispatch({"onKey", "gateKey"}, k)
    /\ UNCHANGED << shows, win, sinceFrame >>
    /\ eventFrame

\* the trials run r has started: those it ran through and the one in hand
TrialsStarted(r) ==
    runs[r].k + runs[r].i + (IF runs[r].phase # "none" THEN 1 ELSE 0)

\* the runs between their first screen after set-up and their end screen
InProgress ==
    { r \in Runs :
        runs[r].pc \notin {"idle", "aborted", "create", "end", "threw"} }

\* the Escape key is pressed, once, while a session is in progress: the
\* keydown listeners of the response window (lines 239-243) and of the gate
\* (lines 289-292) see a key that is neither response key; nothing else
\* listens for keys.  The history keeps where each run was at that moment.
Escape ==
    /\ todo = {}
    /\ InProgress # {}
    /\ \A r \in Runs : hist[r].quit = None
    /\ todo' = Dispatch({"onKey", "gateKey"}, "Escape")
    /\ hist' = [r \in Runs |->
                  IF r \in InProgress
                  THEN [hist[r] EXCEPT !.quit =
                            Some([trials |-> TrialsStarted(r),
                                  phase |-> runs[r].phase,
                                  results |-> runs[r].results])]
                  ELSE hist[r]]
    /\ UNCHANGED << CONFIG, form, sessionDocId, activeScreen, trialContent,
                    awaitingResponse, runs, nextRun, gate, listeners, timers,
                    env, dash, sinkVars, gen, shows, win, sinceFrame >>

\* what a participant can do to answer: press a response key, or tap one of
\* the two response buttons; each with the listeners that hear it
Answers ==
    { << {"onKey", "gateKey"}, "f" >>, << {"onKey", "gateKey"}, "j" >>,
      << {"onTapWord"}, "" >>, << {"onTapNonword"}, "" >> }

\* the participant answers while a run shows its fixation cross, stimulus,
\* mask or feedback, once in a session: the event reaches the listeners
\* registered at that moment.  The history keeps the phase, how far it had
\* run, and the callbacks the event called.
EarlyInput ==
    /\ todo = {}
    /\ \E r \in Runs, a \in Answers :
          /\ runs[r].phase \in ShowPhases
          /\ hist[r].early = None
          /\ todo' = Dispatch(a[1], a[2])
          /\ hist' = [hist EXCEPT ![r].early =
                         Some([phase |-> runs[r].phase,
                               trial |-> TrialsStarted(r),
                               called |-> todo'])]
    /\ UNCHANGED << CONFIG, form, sessionDocId, activeScreen, trialContent,
                    awaitingResponse, runs, nextRun, gate, listeners, timers,
                    env, dash, sinkVars, gen, shows, win, sinceFrame >>

\* a tap on the word button, the nonword button, or the continue button of
\* the gate screen on display
Tap ==
    /\ todo = {}
    /\ \/ todo' = Dispatch({"onTapWord"}, "")
       \/ todo' = Dispatch({"onTapNonword"}, "")
       \/ /\ activeScreen \in {"practiceIntro", "practiceDone", "break"}
          /\ todo' = Dispatch({"gateTap"}, "")
    /\ todo' # {}
    /\ UNCHANGED << shows, win, sinceFrame >>
    /\ eventFrame

\* the current task runs its next callback
RunCallback ==
    \E c \in todo :
        /\ todo' = todo \ {c}
        /\ callbackFrame
        /\ IF c.fn # "frame" /\ Listener(c.run, c.fn) \notin listeners
           THEN NoEffect
           ELSE CASE c.fn = "frame" -> frame(c.run, c.arg)
                  [] c.fn = "onKey" -> onKey(c.run, c.arg)
                  [] c.fn = "onTapWord" -> onTapWord(c.run)
                  [] c.fn = "onTapNonword" -> onTapNonword(c.run)
                  [] c.fn = "gateKey" -> gateKey(c.run, c.arg)
                  [] c.fn = "gateTap" -> gateDone(c.run)

\* the timeout of a response window runs its callback
TimerFires ==
    \E r \in timers :
        /\ todo = {}
        /\ timeoutDue(win[r])
        /\ callbackFrame
        /\ UNCHANGED todo
        /\ onTimeout(r)

(***************************************************************************)
(* The sink (Firestore): createSession, saveTrialToFirestore,              *)
(* completeSession (lines 414-449).  An operation in flight may succeed,   *)
(* fail, or stay in flight for ever.                                       *)
(***************************************************************************)
\* the variables a completion of a fire-and-forget operation leaves alone
sinkFrame ==
    UNCHANGED << CONFIG, form, sessionDocId, activeScreen, trialContent,
                 awaitingResponse, runs, nextRun, shows, win, gate, listeners,
                 timers, todo, sinceFrame, env, dash, gen >>

Failed(r) == [hist EXCEPT ![r].failed = TRUE]

\* addDoc of createSession succeeds: the document exists, its id is stored
\* in sessionDocId (line 583) and runExperiment goes on
CreateSessionResolves ==
    \E op \in ops :
        /\ op.kind = "createSession"
        /\ todo = {}
        /\ sessions' = sessions @@ (op.run :> op.payload)
        /\ sessionDocId' = op.run
        /\ AfterCreate(op.run, runs[op.run], hist[op.run], shows, listeners,
                       gate, ops \ {op})
        /\ UNCHANGED << CONFIG, form, nextRun, win, timers, awaitingResponse,
                        todo, sinceFrame, env, dash, trialDocs, gen >>

\* addDoc of createSession fails: the error is logged (lines 584-586) and
\* runExperiment goes on with sessionDocId as it was
CreateSessionRejects ==
    \E op \in ops :
        /\ op.kind = "createSession"
        /\ todo = {}
        /\ UNCHANGED sessionDocId
        /\ AfterCreate(op.run, runs[op.run], Failed(op.run)[op.run], shows,
                       listeners, gate, ops \ {op})
        /\ UNCHANGED << CONFIG, form, nextRun, win, timers, awaitingResponse,
                        todo, sinceFrame, env, dash, sessions, trialDocs, gen >>

\* addDoc of a trial succeeds (lines 427-438); saveTrialToFirestore goes on
\* to the updateDoc that increments completedTrials, on the session
\* sessionDocId names at that moment (lines 439-441)
TrialWriteResolves ==
    \E op \in ops :
        /\ op.kind = "addTrial"
        /\ todo = {}
        /\ trialDocs' = trialDocs \cup {op.payload}
        /\ ops' = (ops \ {op}) \cup
                    {Op("increment", op.run, sessionDocId, op.n, NoPayload)}
        /\ UNCHANGED << sessions, hist >>
        /\ sinkFrame

\* updateDoc of completedTrials succeeds, on a session document that exists
IncrementResolves ==
    \E op \in ops :
        /\ op.kind = "increment"
        /\ todo = {}
        /\ op.sid \in DOMAIN sessions
        /\ sessions' = [sessions EXCEPT ![op.sid].completedTrials = @ + 1]
        /\ ops' = ops \ {op}
        /\ UNCHANGED << trialDocs, hist >>
        /\ sinkFrame

\* updateDoc of completeSession succeeds (lines 445-448)
CompleteResolves ==
    \E op \in ops :
        /\ op.kind = "complete"
        /\ todo = {}
        /\ op.sid \in DOMAIN sessions
        /\ sessions' = [sessions EXCEPT ![op.sid].status = "completed"]
        /\ ops' = ops \ {op}
        /\ hist' = [hist EXCEPT ![op.sid].closed = @ + 1]
        /\ UNCHANGED trialDocs
        /\ sinkFrame

\* a .catch that takes back the latest result of the run
catchSinkErrorRollsBack(r) ==
    [runs EXCEPT ![r].results = SubSeq(@, 1, Len(@) - 1)]

\* what the .catch of a fire-and-forget operation does with the run
\* (lines 623-625, 631-633): it logs, and that is all
catchSinkError(r) == runs

\* a trial write, an increment or the finalize update fails
SinkRejects ==
    \E op \in ops :
        /\ op.kind \in {"addTrial", "increment", "complete"}
        /\ todo = {}
        /\ ops' = ops \ {op}
        /\ hist' = Failed(op.run)
        /\ runs' = catchSinkError(op.run)
        /\ UNCHANGED << sessions, trialDocs >>
        /\ UNCHANGED << CONFIG, form, sessionDocId, activeScreen, trialContent,
                        awaitingResponse, nextRun, shows, win, gate, listeners,
                        timers, todo, sinceFrame, env, dash, gen >>

(***************************************************************************)
(* The experiment: initial states and next-state relation.                 *)
(***************************************************************************)
\* the catalogs of the model: the main catalog holds one word or one
\* pseudoword, the practice catalog one item of each lexicality
Catalogs ==
    { [words |-> << "river" >>, pseudowords |-> << >>],
      [words |-> << >>, pseudowords |-> << "tible" >>] }

PracticeItems == << Item("finger", "word"), Item("hamen", "pseudoword") >>

\* the stimulus durations of the model, in ticks (CONFIG.durations, line 72)
Durations == << 1, 3 >>

(***************************************************************************)
(* The dashboard's aggregator, recomputeAll (dashboard.js lines 123-163),  *)
(* on the trial documents of the sink.                                     *)
(***************************************************************************)
\* rt < 0.2 and rt > 2.0 of the exclusions, in the RT unit of the model:
\* below one tick, above the default response window
CleanMin == 1000
CleanMax == 3000

\* exclusions that also drop an RT at either end of the window
cleanStrict(allTrials) ==
    { t \in allTrials :
        /\ t.RT # None
        /\ ~(t.RT[1] <= CleanMin)
        /\ ~(t.RT[1] >= CleanMax) }

\* the trial-level exclusions (lines 127-134)
clean(allTrials) ==
    { t \in allTrials :
        /\ t.RT # None
        /\ ~(t.RT[1] < CleanMin)
        /\ ~(t.RT[1] > CleanMax) }

\* the four conditions (lines 137-142), 40 and 200 ms being the two durations
conditions ==
    { << lex, dur >> : lex \in Lexicalities, dur \in {Durations[1], Durations[2]} }

\* grandStats of recomputeAll (lines 144-158); null is None.  With no trial
\* at all the function returns before it computes anything (line 124).
grandStats(allTrials) ==
    [c \in conditions |->
        LET subset == { t \in clean(allTrials) :
                          t.lexicality = c[1] /\ t.duration = c[2] }
            n == Cardinality(subset)
            correct == { t \in subset : t.accuracy = 1 }
        IN  [acc |-> IF n > 0 THEN Some(Ratio(SumAccuracy(subset), n)) ELSE None,
             meanRT |-> IF correct # {}
                        THEN Some(Ratio(SumRT(correct), Cardinality(correct)))
                        ELSE None,
             n |-> n]]

(***************************************************************************)
(* The live dashboard (dashboard.js lines 20-163): its two snapshot        *)
(* listeners, the debounce timer and what it puts on display.  The         *)
(* dashboard runs in a page of its own, with a clock of its own.           *)
(***************************************************************************)
\* setTimeout(recomputeAll, 500), in ticks
Debounce == 2

\* the dashboard as its module is loaded: allSessions, allTrials,
\* recomputeTimer (0 is null, else the id of the timer set last), the timers
\* of the page that are pending, the status line, the participant panel and
\* the data of the charts; heard, quiet, since and ranAt are history:
\* whether the sessions listener has run, the ticks since the latest trials
\* snapshot, the recomputations since then, and the value of quiet when
\* recomputeAll ran last
NoDash ==
    [ allSessions |-> << >>, allTrials |-> {}, recomputeTimer |-> 0,
      pending |-> {}, statusLine |-> None, participants |-> None,
      charts |-> None, heard |-> FALSE, quiet |-> 0, since |-> 0,
      ranAt |-> None ]

\* snapshot.docs.map(...) of sessionsQuery (lines 29-32, 40): the documents
\* with their ids, the one started last first; ids are given in that order
snapshotSessions(docs) ==
    [i \in 1..Len(docs) |->
        [id |-> Len(docs) + 1 - i,
         username |-> docs[Len(docs) + 1 - i].username,
         status |-> docs[Len(docs) + 1 - i].status]]

\* a < b for two means
Less(a, b) == a.num * b.den < b.num * a.den

\* the comparator of the ranking (lines 86-94): negative, zero or positive
compareRows(a, b) ==
    IF a.status = "completed" /\ b.status # "completed" THEN -1
    ELSE IF a.status # "completed" /\ b.status = "completed" THEN 1
    ELSE IF a.acc = None /\ b.acc = None THEN 0
    ELSE IF a.acc = None THEN 1
    ELSE IF b.acc = None THEN -1
    ELSE IF Less(b.acc[1], a.acc[1]) THEN -1
    ELSE IF Less(a.acc[1], b.acc[1]) THEN 1
    ELSE 0

\* Array.prototype.sort, which is stable, with that comparator
sortRows(rows) ==
    LET n == Len(rows)
        place(i) ==
            1 + Cardinality({ j \in 1..n :
                    \/ compareRows(rows[j], rows[i]) < 0
                    \/ compareRows(rows[j], rows[i]) = 0 /\ j < i })
    IN  [k \in 1..n |-> rows[CHOOSE i \in 1..n : place(i) = k]]

\* updateParticipantList(trials) (lines 69-117): the three counters and the
\* rows of the table; trials are grouped by username
updateParticipantList(allSessions, trials) ==
    LET row(s) ==
            LET userTrials == { t \in trials : t.username = s.username }
                n == Cardinality(userTrials)
            IN  [username |-> s.username, status |-> s.status,
                 acc |-> IF n > 0 THEN Some(Ratio(SumAccuracy(userTrials), n))
                         ELSE None]
        count(status) ==
            Cardinality({ i \in 1..Len(allSessions) : allSessions[i].status = status })
    IN  [ inProgress |-> count("in_progress"),
          completed |-> count("completed"),
          nTrials |-> Cardinality(trials),
          ranked |-> sortRows([i \in 1..Len(allSessions) |-> row(allSessions[i])]) ]

\* updateStatusLine (lines 58-63)
updateStatusLine(allSessions, allTrials) ==
    Some(<< Len(allSessions), Cardinality(allTrials) >>)

\* what a step of the dashboard leaves alone
dashFrame ==
    UNCHANGED << CONFIG, form, sessionDocId, activeScreen, trialContent,
                 awaitingResponse, runs, nextRun, shows, win, gate, listeners,
                 timers, todo, sinceFrame, env, sessions, trialDocs, ops, gen,
                 hist >>

\* a recomputeAll that drops the excluded trials from allTrials itself
recomputeAllInPlace(d) ==
    IF d.allTrials = {} THEN d
    ELSE [d EXCEPT
            !.allTrials = clean(d.allTrials),
            !.participants = Some(updateParticipantList(d.allSessions, d.allTrials)),
            !.charts = Some(grandStats(d.allTrials))]

\* recomputeAll (lines 123-163) on the dashboard d
recomputeAll(d) ==
    IF d.allTrials = {} THEN d
    ELSE [d EXCEPT
            !.participants = Some(updateParticipantList(d.allSessions, d.allTrials)),
            !.charts = Some(grandStats(d.allTrials))]

\* a sessions listener that stores the snapshot and leaves the panel alone
onSessionsKeepPanel(d, docs) ==
    LET all == snapshotSessions(docs)
    IN  [d EXCEPT !.allSessions = all,
                  !.statusLine = updateStatusLine(all, d.allTrials),
                  !.heard = TRUE]

\* the listener of sessionsQuery (lines 39-43)
onSessions(d, docs) ==
    LET all == snapshotSessions(docs)
    IN  [d EXCEPT !.allSessions = all,
                  !.participants = Some(updateParticipantList(all, d.allTrials)),
                  !.statusLine = updateStatusLine(all, d.allTrials),
                  !.heard = TRUE]

\* a trials listener that sets its timer and clears none
armWithoutClear(d) ==
    [d EXCEPT !.pending = @ \cup {[id |-> d.recomputeTimer + 1, left |-> Debounce]},
              !.recomputeTimer = @ + 1]

\* clearTimeout(recomputeTimer); recomputeTimer = setTimeout(recomputeAll, 500)
arm(d) ==
    [d EXCEPT !.pending = { t \in @ : t.id # d.recomputeTimer }
                              \cup {[id |-> d.recomputeTimer + 1, left |-> Debounce]},
              !.recomputeTimer = @ + 1]

\* the listener of trialsQuery (lines 45-52)
onTrials(d, docs) ==
    [arm(d) EXCEPT !.allTrials = docs,
                   !.statusLine = updateStatusLine(d.allSessions, docs),
                   !.quiet = 0, !.since = 0]

\* Firestore notifies the sessions listener: once with the documents there
\* are, and again whenever they have changed
SessionsSnapshot ==
    /\ ~dash.heard \/ snapshotSessions(sessions) # dash.allSessions
    /\ dash' = onSessions(dash, sessions)
    /\ dashFrame

\* Firestore notifies the trials listener, likewise
TrialsSnapshot ==
    /\ dash.recomputeTimer = 0 \/ trialDocs # dash.allTrials
    /\ dash' = onTrials(dash, trialDocs)
    /\ dashFrame

\* a timer that runs its callback one tick before its delay has elapsed
timerDueEarly(t) == t.left <= 1

\* a timer whose delay has elapsed runs its callback, once
timerDue(t) == t.left <= 0

\* one tick of the dashboard's clock while a timer is pending and none is
\* overdue by the lateness of the environment
DashTick ==
    /\ dash.pending # {}
    /\ \A t \in dash.pending : t.left > 0 - env.late
    /\ dash' = [dash EXCEPT !.pending = { [t EXCEPT !.left = @ - 1] : t \in @ },
                            !.quiet = @ + 1]
    /\ dashFrame

\* the debounce timer runs recomputeAll
RecomputeFires ==
    \E t \in dash.pending :
        /\ timerDue(t)
        /\ dash' = [recomputeAll(dash) EXCEPT
                        !.pending = @ \ {t},
                        !.since = @ + 1,
                        !.ranAt = Some(dash.quiet)]
        /\ dashFrame

\* the welcome form with its numeric fields empty
EmptyForm ==
    [ subjectId |-> "", reps |-> None, fixDur |-> None, maskDur |-> None,
      timeout |-> None, fbDur |-> None, swap |-> FALSE, practice |-> FALSE,
      devMode |-> FALSE ]

\* the state after the module is loaded, for a configuration, a welcome form
\* and an environment
InitWith(cfg, f, e) ==
    /\ CONFIG = cfg
    /\ form = f
    /\ env = e
    /\ dash = NoDash
    /\ sessionDocId = NoId
    /\ activeScreen = "welcome"
    /\ trialContent = << 0, "none" >>
    /\ awaitingResponse = FALSE
    /\ runs = [r \in Runs |-> IdleRun]
    /\ nextRun = 0
    /\ shows = {}
    /\ win = [r \in Runs |-> NoWindow]
    /\ gate = [r \in Runs |-> [open |-> FALSE, resolved |-> FALSE]]
    /\ listeners = {}
    /\ timers = {}
    /\ todo = {}
    /\ sinceFrame = 0
    /\ sessions = << >>
    /\ trialDocs = {}
    /\ ops = {}
    /\ gen = GenIdle
    /\ hist = [r \in Runs |-> NoHistory]


\* a participant who fills in the form and starts once, on a display of
\* some refresh gap
Participant(g) ==
    [gap |-> g, late |-> MaxLate, clicks |-> 1, subjects |-> {"p1"},
     swaps |-> BOOLEAN, practice |-> BOOLEAN]

\* every task of the browser but the completions of sink operations
Browser ==
    \/ EditForm
    \/ StartClick
    \/ Tick
    \/ AnimationFrame
    \/ KeyDown
    \/ Tap
    \/ RunCallback
    \/ TimerFires

(***************************************************************************)
(* SpecTrial: one session whose sink is unreachable, so that the session   *)
(* document is never created and no trial is written.                      *)
(***************************************************************************)
InitTrial ==
    \E g \in 1..MaxGap, cat \in Catalogs :
        InitWith(InitialConfig(cat.words, cat.pseudowords, PracticeItems, Durations),
                 [EmptyForm EXCEPT !.subjectId = "p1"], Participant(g))

NextTrial ==
    \/ Browser
    \/ CreateSessionRejects

SpecTrial == InitTrial /\ [][NextTrial]_vars


(***************************************************************************)
(* Spec: one session and a sink that may succeed, fail or never answer,    *)
(* operation by operation.                                                 *)
(***************************************************************************)
Sink ==
    \/ CreateSessionResolves
    \/ CreateSessionRejects
    \/ TrialWriteResolves
    \/ IncrementResolves
    \/ CompleteResolves
    \/ SinkRejects

\* a participant who starts once with the form as it is
Punctual(g) ==
    [gap |-> g, late |-> 0, clicks |-> 1, subjects |-> {"p1", " "},
     swaps |-> {FALSE}, practice |-> {FALSE, TRUE}]

Init ==
    \E cat \in Catalogs :
        InitWith(InitialConfig(cat.words, cat.pseudowords, PracticeItems, Durations),
                 [EmptyForm EXCEPT !.subjectId = "p1"], Punctual(MaxGap))

Next == Browser \/ Sink

Spec == Init /\ [][Next]_vars

(***************************************************************************)
(* SpecReentry: the start button is clicked up to MaxRuns times while the  *)
(* welcome screen is on display; the sink is unreachable.                  *)
(***************************************************************************)
\* a participant who clicks the start button again and again
Impatient ==
    [gap |-> 1, late |-> 0, clicks |-> MaxRuns, subjects |-> {"p1"},
     swaps |-> {FALSE}, practice |-> {FALSE}]

\* the form asks for the shortest fixation, response window and feedback
InitReentry ==
    InitWith(InitialConfig(<< "river" >>, << >>, PracticeItems, Durations),
             [EmptyForm EXCEPT !.subjectId = "p1", !.fixDur = Some(1),
                               !.timeout = Some(1), !.fbDur = Some(1)],
             Impatient)

NextReentry ==
    \/ StartClick
    \/ Tick
    \/ AnimationFrame
    \/ Tap
    \/ RunCallback
    \/ TimerFires
    \/ CreateSessionRejects

SpecReentry == InitReentry /\ [][NextReentry]_vars

(***************************************************************************)
(* SpecGen: one call of generateTrials (lines 120-144), step by step: the  *)
(* list is built, shuffled in place by one exchange at a time, checked,    *)
(* shuffled again while the check fails and attempts are left, numbered    *)
(* and returned.  The 1000 attempts of the code are MaxAttempts here.      *)
(***************************************************************************)
genFrame ==
    UNCHANGED << CONFIG, form, sessionDocId, activeScreen, trialContent,
                 awaitingResponse, runs, nextRun, shows, win, gate, listeners,
                 timers, todo, sinceFrame, env, dash, sessions, trialDocs, ops, hist >>

\* shuffle(trials) is entered: i = arr.length - 1
GenShuffle(trials, attempt) ==
    [pc |-> "shuffle", trials |-> trials, i |-> Len(trials) - 1, attempt |-> attempt]

\* lines 121-131: the list is built; line 134: the first attempt begins
GenBuild ==
    /\ gen.pc = "idle"
    /\ gen' = GenShuffle(BuildTrials(CONFIG), 0)
    /\ genFrame

\* lines 98-101: one round of the loop of shuffle, with j drawn at random
GenSwap ==
    /\ gen.pc = "shuffle"
    /\ gen.i > 0
    /\ \E j \in 0..gen.i :
          gen' = [gen EXCEPT !.trials = swap(gen.trials, gen.i, j), !.i = @ - 1]
    /\ genFrame

\* a loop test that allows one attempt more
attemptsLeftOneMore(attempt) == attempt + 1 <= MaxAttempts

\* attempt++ ; attempt < 1000 (line 134), after the attempt numbered `attempt`
attemptsLeft(attempt) == attempt + 1 < MaxAttempts

\* lines 134-137: shuffle has returned; the loop ends when the order passes
\* the constraint or no attempt is left
GenCheck ==
    /\ gen.pc = "shuffle"
    /\ gen.i <= 0
    /\ IF checkLexConstraint(gen.trials, CONFIG.maxSameLexInRow)
       THEN gen' = [gen EXCEPT !.pc = "number"]
       ELSE IF attemptsLeft(gen.attempt)
            THEN gen' = GenShuffle(gen.trials, gen.attempt + 1)
            ELSE gen' = [gen EXCEPT !.pc = "number", !.attempt = @ + 1]
    /\ genFrame

\* lines 140-143: the trial numbers are added and the list is returned
GenNumber ==
    /\ gen.pc = "number"
    /\ gen' = [gen EXCEPT !.pc = "returned", !.trials = AddTrialNumbers(@)]
    /\ genFrame

\* the catalogs generateTrials is called with: the two of one stimulus, and
\* one of two words and a pseudoword
GenCatalogs ==
    Catalogs \cup { [words |-> << "river", "sugar" >>, pseudowords |-> << "tible" >>] }

\* the repetitions field of the form: empty, 0, or a count up to MaxReps;
\* the catalog of three stimuli is generated once only
InitGen ==
    \E cat \in GenCatalogs, reps \in {None} \cup { Some(n) : n \in 0..MaxReps } :
        /\ Len(cat.words) + Len(cat.pseudowords) = 1 \/ parseIntOr(reps, DefaultReps) = 1
        /\ InitWith(applyFormParameters(
                        InitialConfig(cat.words, cat.pseudowords, PracticeItems,
                                      Durations),
                        [EmptyForm EXCEPT !.reps = reps]),
                    [EmptyForm EXCEPT !.reps = reps], Punctual(1))

NextGen ==
    \/ GenBuild
    \/ GenSwap
    \/ GenCheck
    \/ GenNumber

SpecGen == InitGen /\ [][NextGen]_vars

(***************************************************************************)
(* SpecBreak: one session of one or of MaxReps repetitions, without the    *)
(* practice block, its sink unreachable; the participant answers by taps.  *)
(***************************************************************************)
\* a participant who starts once and leaves the form as it is
Steady ==
    [gap |-> 1, late |-> 0, clicks |-> 1, subjects |-> {"p1"},
     swaps |-> {FALSE}, practice |-> {FALSE}]

\* the form asks for the shortest fixation, response window and feedback,
\* and for the default or for MaxReps repetitions
InitBreak ==
    \E reps \in {None, Some(MaxReps)} :
        InitWith(InitialConfig(<< "river" >>, << >>, PracticeItems, Durations),
                 [EmptyForm EXCEPT !.subjectId = "p1", !.reps = reps,
                                   !.fixDur = Some(1), !.timeout = Some(1),
                                   !.fbDur = Some(1)],
                 Steady)

NextBreak ==
    \/ StartClick
    \/ Tick
    \/ AnimationFrame
    \/ Tap
    \/ RunCallback
    \/ TimerFires
    \/ CreateSessionRejects

SpecBreak == InitBreak /\ [][NextBreak]_vars

(***************************************************************************)
(* SpecQuit: the session of SpecBreak, during which the participant        *)
(* presses Escape once.                                                    *)
(***************************************************************************)
NextQuit ==
    \/ StartClick
    \/ Tick
    \/ AnimationFrame
    \/ Tap
    \/ Escape
    \/ RunCallback
    \/ TimerFires
    \/ CreateSessionRejects

SpecQuit == InitBreak /\ [][NextQuit]_vars

(***************************************************************************)
(* SpecRetry: the participant first leaves the username empty or blank,    *)
(* with the swap box checked or not, and may then correct the form and     *)
(* start again; the sink is unreachable and nobody responds.               *)
(***************************************************************************)
\* a participant who may start up to MaxRuns times and edits the form
Forgetful ==
    [gap |-> 1, late |-> 0, clicks |-> MaxRuns, subjects |-> {"p1"},
     swaps |-> {FALSE, TRUE}, practice |-> {FALSE}]

InitRetry ==
    \E id \in {"", " "}, sw \in BOOLEAN :
        InitWith(InitialConfig(<< "river" >>, << >>, PracticeItems, Durations),
                 [EmptyForm EXCEPT !.subjectId = id, !.swap = sw,
                                   !.fixDur = Some(1), !.timeout = Some(1),
                                   !.fbDur = Some(1)],
                 Forgetful)

NextRetry ==
    \/ EditForm
    \/ StartClick
    \/ Tick
    \/ AnimationFrame
    \/ RunCallback
    \/ TimerFires
    \/ CreateSessionRejects

SpecRetry == InitRetry /\ [][NextRetry]_vars

(***************************************************************************)
(* SpecShared: the start button is clicked up to MaxRuns times while the   *)
(* welcome screen is on display, and the sink answers every operation it   *)
(* answers with success; nobody responds, so every trial times out.        *)
(***************************************************************************)
NextShared ==
    \/ StartClick
    \/ Tick
    \/ AnimationFrame
    \/ RunCallback
    \/ TimerFires
    \/ CreateSessionResolves
    \/ TrialWriteResolves
    \/ IncrementResolves
    \/ CompleteResolves

SpecShared == InitReentry /\ [][NextShared]_vars

(***************************************************************************)
(* SpecOwner: the clicks of SpecShared, and a sink in which the creation   *)
(* of a session may fail while every other operation succeeds.             *)
(***************************************************************************)
NextOwner ==
    \/ StartClick
    \/ Tick
    \/ AnimationFrame
    \/ RunCallback
    \/ TimerFires
    \/ CreateSessionResolves
    \/ CreateSessionRejects
    \/ TrialWriteResolves
    \/ IncrementResolves
    \/ CompleteResolves

SpecOwner == InitReentry /\ [][NextOwner]_vars

(***************************************************************************)
(* SpecAgg: the two aggregators on one result set.  A session of up to     *)
(* MaxResults main trials has returned from its last trial, with any       *)
(* outcome a trial can have, and every trial write has been stored; the    *)
(* end screen computes its summary, the dashboard receives the trials and  *)
(* recomputes, and each aggregation is then run once more on the same set. *)
(***************************************************************************)
\* the trials a session may have run
SomeTrials ==
    { Trial("river", "word", Durations[d]) : d \in 1..2 }
        \cup { Trial("tible", "pseudoword", Durations[d]) : d \in 1..2 }

\* what a response window may emit: nothing, or a response key at a time
\* before, at the ends of, and beyond the dashboard's clean window
Outcomes ==
    {[key |-> None, rt |-> None]}
        \cup { [key |-> Some(k), rt |-> Some(t)] :
                 k \in {"f", "j"}, t \in {0, 1, DefaultTimeout, DefaultTimeout + 1} }

\* the result list of a session that ran the trials picks[i][1] with the
\* outcomes picks[i][2]
resultsOf(cfg, picks) ==
    [i \in 1..Len(picks) |->
        mainResult(trialResult(cfg, picks[i][1], picks[i][2].key, picks[i][2].rt,
                               isCorrect(cfg, picks[i][1], picks[i][2].key)),
                   i - 1, "p1")]

InitAgg ==
    \E n \in 0..MaxResults :
      \E picks \in [1..n -> SomeTrials \X Outcomes] :
        LET cfg == InitialConfig(<< "river" >>, << "tible" >>, PracticeItems,
                                 Durations)
            rs == resultsOf(cfg, picks)
        IN  /\ CONFIG = cfg
            /\ form = [EmptyForm EXCEPT !.subjectId = "p1"]
            /\ env = Steady
            /\ dash = NoDash
            /\ sessionDocId = 1
            /\ activeScreen = "trial"
            /\ trialContent = << 0, "none" >>
            /\ awaitingResponse = FALSE
            /\ runs = [r \in Runs |->
                         IF r = 1
                         THEN [IdleRun EXCEPT
                                 !.pc = "main", !.subjId = "p1",
                                 !.totalTrials = n, !.results = rs,
                                 !.trials = [i \in 1..n |->
                                               [stimulus |-> rs[i].stimulus,
                                                lexicality |-> rs[i].lexicality,
                                                duration |-> rs[i].duration,
                                                trialNumber |-> i - 1]],
                                 !.i = n]
                         ELSE IdleRun]
            /\ nextRun = 1
            /\ shows = {}
            /\ win = [r \in Runs |-> NoWindow]
            /\ gate = [r \in Runs |-> [open |-> FALSE, resolved |-> FALSE]]
            /\ listeners = {}
            /\ timers = {}
            /\ todo = {}
            /\ sinceFrame = 0
            /\ sessions = << [SessionDoc("p1", n) EXCEPT !.completedTrials = n] >>
            /\ trialDocs = { TrialDoc(1, "p1", rs[i]) : i \in 1..n }
            /\ ops = {}
            /\ gen = GenIdle
            /\ hist = [r \in Runs |-> NoHistory]

\* computeSummary(results), which populateSummary calls for the end screen
\* (line 500), and the same call made once more
RunSummary ==
    /\ runs[1].pc \in {"main", "summary"}
    /\ runs' = [runs EXCEPT
                  ![1].summary = Some(computeSummary(runs[1].results)),
                  ![1].pc = IF @ = "main" THEN "summary" ELSE "end"]
    /\ UNCHANGED << CONFIG, form, sessionDocId, activeScreen, trialContent,
                    awaitingResponse, nextRun, shows, win, gate, listeners,
                    timers, todo, sinceFrame, env, dash, sessions, trialDocs,
                    ops, gen, hist >>

\* recomputeAll is run once more on the trials the dashboard holds
RecomputeAgain ==
    /\ dash.since = 1
    /\ dash.pending = {}
    /\ dash' = [recomputeAll(dash) EXCEPT !.since = @ + 1]
    /\ dashFrame

NextAgg ==
    \/ RunSummary
    \/ TrialsSnapshot
    \/ DashTick
    \/ RecomputeFires
    \/ RecomputeAgain

SpecAgg == InitAgg /\ [][NextAgg]_vars

(***************************************************************************)
(* SpecDash: the dashboard while experiment pages write to the sink: up to *)
(* MaxRuns sessions are created, their trials stored and the sessions      *)
(* finalized, in any order the experiment allows, and the two listeners    *)
(* are notified independently of one another.  A timer that is late adds   *)
(* no order of notifications to those of a punctual one, which SpecDash    *)
(* has; SpecBurst has both.                                                *)
(***************************************************************************)
\* the participant of the session with the id sid
userOf(sid) == IF sid = 1 THEN "p1" ELSE "p2"

\* the trial documents the sessions may store: two of the first session, an
\* answered word and an unanswered one, and a wrongly answered pseudoword of
\* every other session
DashTrials ==
    LET cfg == InitialConfig(<< "river" >>, << "tible" >>, PracticeItems, Durations)
        word == Trial("river", "word", Durations[1])
        pseudo == Trial("tible", "pseudoword", Durations[2])
        first == resultsOf(cfg, << << word, [key |-> Some("f"), rt |-> Some(1)] >>,
                                   << word, [key |-> None, rt |-> None] >> >>)
        other == resultsOf(cfg, << << pseudo, [key |-> Some("f"), rt |-> Some(1)] >> >>)
    IN  { TrialDoc(1, userOf(1), first[i]) : i \in 1..2 }
            \cup { TrialDoc(sid, userOf(sid), other[1]) : sid \in 2..MaxRuns }

\* what a step of an experiment page leaves alone
clientFrame ==
    UNCHANGED << CONFIG, form, sessionDocId, activeScreen, trialContent,
                 awaitingResponse, runs, nextRun, shows, win, gate, listeners,
                 timers, todo, sinceFrame, env, dash, ops, gen, hist >>

\* createSession of an experiment page (lines 414-424) is stored
ClientCreatesSession ==
    /\ Len(sessions) < MaxRuns
    /\ sessions' = Append(sessions, SessionDoc(userOf(Len(sessions) + 1), 2))
    /\ UNCHANGED trialDocs
    /\ clientFrame

\* the addDoc of saveTrialToFirestore (lines 427-438) is stored
ClientWritesTrial ==
    /\ \E t \in DashTrials \ trialDocs :
          /\ t.sessionId \in DOMAIN sessions
          /\ trialDocs' = trialDocs \cup {t}
    /\ UNCHANGED sessions
    /\ clientFrame

\* the updateDoc of completeSession (lines 444-449) is stored
ClientCompletes ==
    /\ \E sid \in DOMAIN sessions :
          /\ sessions[sid].status = "in_progress"
          /\ sessions' = [sessions EXCEPT ![sid].status = "completed"]
    /\ UNCHANGED trialDocs
    /\ clientFrame

\* someone who watches the dashboard and starts no session on this page
Onlooker(l) ==
    [gap |-> 1, late |-> l, clicks |-> 0, subjects |-> {}, swaps |-> {},
     practice |-> {}]

InitDash ==
    \E l \in 0..MaxLate :
        InitWith(InitialConfig(<< "river" >>, << "tible" >>, PracticeItems, Durations),
                 EmptyForm, Onlooker(l))

NextDash ==
    \/ ClientCreatesSession
    \/ ClientWritesTrial
    \/ ClientCompletes
    \/ SessionsSnapshot
    \/ TrialsSnapshot
    \/ DashTick
    \/ RecomputeFires

\* the timers of the dashboard's page are punctual
InitLive ==
    InitWith(InitialConfig(<< "river" >>, << "tible" >>, PracticeItems, Durations),
             EmptyForm, Onlooker(0))

SpecDash == InitLive /\ [][NextDash]_vars

(***************************************************************************)
(* SpecBurst: the trials listener and its timer alone, while sessions are  *)
(* created and trials stored.  The clock of the dashboard's page goes on   *)
(* and a timer that is due runs its callback.                              *)
(***************************************************************************)
NextBurst ==
    \/ ClientCreatesSession
    \/ ClientWritesTrial
    \/ TrialsSnapshot
    \/ DashTick
    \/ RecomputeFires

SpecBurst ==
    InitDash /\ [][NextBurst]_vars /\ WF_vars(DashTick) /\ WF_vars(RecomputeFires)

(***************************************************************************)
(* SpecPractice: one session with the practice block, its sink             *)
(* unreachable; the practice catalog is a stretch of the catalog of the    *)
(* source.                                                                 *)
(***************************************************************************)
\* CONFIG.words and CONFIG.pseudowords (lines 36-58)
MainWords ==
    << "river", "window", "sugar", "forest", "jacket", "island", "kitten",
       "cheese", "hammer", "candle" >>

MainPseudowords ==
    << "tible", "hause", "gardon", "flomer", "desern", "strean", "perlun",
       "morle", "stome", "waper" >>

\* CONFIG.practiceItems (lines 61-68)
PracticeCatalog ==
    << Item("finger", "word"), Item("church", "word"), Item("carrot", "word"),
       Item("hamen", "pseudoword"), Item("pamer", "pseudoword"),
       Item("waten", "pseudoword") >>

\* the practice catalogs of the model: up to MaxItems consecutive items
PracticeCatalogs ==
    { SubSeq(PracticeCatalog, w[1], w[1] + w[2] - 1) :
        w \in { v \in (1..Len(PracticeCatalog)) \X (0..MaxItems) :
                    v[1] + v[2] - 1 <= Len(PracticeCatalog) } }

\* the practice box is ticked, and the form asks for the shortest phases
InitPractice ==
    \E items \in PracticeCatalogs :
        InitWith(InitialConfig(<< MainWords[1] >>, << >>, items, Durations),
                 [EmptyForm EXCEPT !.subjectId = "p1", !.practice = TRUE,
                                   !.fixDur = Some(1), !.timeout = Some(1),
                                   !.fbDur = Some(1)],
                 Steady)

NextPractice ==
    \/ StartClick
    \/ Tick
    \/ AnimationFrame
    \/ Tap
    \/ RunCallback
    \/ TimerFires
    \/ CreateSessionRejects

SpecPractice == InitPractice /\ [][NextPractice]_vars

(***************************************************************************)
(* SpecInput: one session of two short trials, its sink unreachable, in    *)
(* which the participant also answers once outside the response window.    *)
(***************************************************************************)
InitInput ==
    \E g \in 1..MaxGap :
        InitWith(InitialConfig(<< "river" >>, << >>, PracticeItems, Durations),
                 [EmptyForm EXCEPT !.subjectId = "p1", !.fixDur = Some(1),
                                   !.timeout = Some(1), !.fbDur = Some(1)],
                 Participant(g))

NextInput ==
    \/ StartClick
    \/ Tick
    \/ AnimationFrame
    \/ KeyDown
    \/ Tap
    \/ EarlyInput
    \/ RunCallback
    \/ TimerFires
    \/ CreateSessionRejects

SpecInput == InitInput /\ [][NextInput]_vars

(***************************************************************************)
(* SpecSink: one session of two short trials whose windows time out, and   *)
(* a sink in which every operation succeeds, after any delay and in any    *)
(* order.                                                                  *)
(***************************************************************************)
InitSink ==
    \E g \in 1..MaxGap, dev \in BOOLEAN :
        InitWith(InitialConfig(<< "river" >>, << >>, PracticeItems, Durations),
                 [EmptyForm EXCEPT !.subjectId = "p1", !.devMode = dev,
                                   !.fixDur = Some(1), !.timeout = Some(1),
                                   !.fbDur = Some(1)],
                 Participant(g))

NextSink ==
    \/ StartClick
    \/ Tick
    \/ AnimationFrame
    \/ RunCallback
    \/ TimerFires
    \/ CreateSessionResolves
    \/ TrialWriteResolves
    \/ IncrementResolves
    \/ CompleteResolves

\* time passes, the display is refreshed, every task runs to its end and a
\* due timer runs; every operation of the sink is answered in the end
SpecSink ==
    /\ InitSink
    /\ [][NextSink]_vars
    /\ WF_vars(Tick)
    /\ WF_vars(AnimationFrame)
    /\ WF_vars(RunCallback)
    /\ WF_vars(TimerFires)
    /\ WF_vars(CreateSessionResolves)
    /\ WF_vars(TrialWriteResolves)
    /\ WF_vars(IncrementResolves)
    /\ WF_vars(CompleteResolves)

\* generateTrials is a synchronous function: once called it runs on to its
\* return, so that every step of it that is enabled is taken
SpecGenFair == InitGen /\ [][NextGen]_vars /\ WF_vars(NextGen)

(***************************************************************************)
(* Properties of one trial, checked under SpecTrial.                       *)
(***************************************************************************)
\* the runs that have been started
Started == 1..nextRun

\* the phases of run r that are active: a showForDuration promise of the
\* run is pending, or its response window is open
ActivePhases(r) ==
    { w.phase : w \in { x \in shows : x.run = r } }
        \cup (IF win[r].open THEN {"ResponseWindow"} ELSE {})

\* s is an initial part of t
IsPrefix(s, t) == Len(s) <= Len(t) /\ \A i \in 1..Len(s) : s[i] = t[i]

\* C1: a response window resolves exactly once: whatever key presses, taps
\* and timeout follow one another, at most one result is emitted per window,
\* the trial in its feedback phase holds that one result, and a window that
\* is still awaited has emitted nothing.
C1_ResolvesOnce ==
    \A r \in Started :
        LET e == hist[r].emitted
        IN  /\ Len(e) <= 1
            /\ runs[r].phase = "ResponseWindow" => e = <<>> /\ win[r].open
            /\ runs[r].phase = "Feedback" =>
                  /\ Len(e) = 1
                  /\ runs[r].key = e[1].key
                  /\ runs[r].rt = e[1].rt
                  /\ ~win[r].open

\* an input was accepted when the timeout was already due: the timeout's
\* callback lost the race and the window has resolved once
C1_Witness ==
    \E r \in Started :
        /\ runs[r].phase = "Feedback"
        /\ Len(hist[r].emitted) = 1
        /\ hist[r].emitted[1].key # None
        /\ hist[r].emitted[1].at >= win[r].timeout

\* C2: whenever the response window of a run is not active, none of its
\* response listeners is registered and its timeout is not pending; at the
\* end of the session no response listener of any run is left.
C2_NoLeak ==
    \A r \in Runs :
        /\ ~win[r].open =>
              /\ listeners \cap ResponseListeners(r) = {}
              /\ r \notin timers
        /\ runs[r].phase # "ResponseWindow" => ~win[r].open
        /\ runs[r].pc \in {"end", "threw"} =>
              /\ { l \in listeners : l.fn \in {"onKey", "onTapWord", "onTapNonword"} } = {}
              /\ timers = {}

\* a session has ended after one window resolved by its timeout and one by
\* an input, and nothing is registered
C2_Witness ==
    \E r \in Started :
        /\ runs[r].pc = "end"
        /\ \E i, j \in 1..Len(runs[r].results) :
              /\ runs[r].results[i].response = None
              /\ runs[r].results[j].response # None
        /\ listeners = {}
        /\ timers = {}

\* the decision an input is bound to is the one the window emitted
BoundDecision(e) ==
    CASE e.by[1] = "onKey" ->
            /\ toLowerCase(e.by[2]) \in {CONFIG.keyWord, CONFIG.keyNonword}
            /\ e.key = Some(toLowerCase(e.by[2]))
      [] e.by[1] = "onTapWord" -> e.key = Some(CONFIG.keyWord)
      [] e.by[1] = "onTapNonword" -> e.key = Some(CONFIG.keyNonword)
      [] OTHER -> FALSE

\* what C3 says of an input: the decision bound to it is emitted with the
\* time elapsed since the window opened, the timeout never fires, and an
\* input with no decision bound to it resolves nothing
InputEmits(r, e) ==
    e.key # None =>
        /\ BoundDecision(e)
        /\ e.rt = Some(e.at)
        /\ hist[r].fired = 0

\* C3: an accepted input emits the decision bound to it with RT equal to the
\* time elapsed since the window opened, and the timeout then never fires;
\* with no input the window resolves at exactly the configured timeout with
\* no decision and no RT; an unbound input never resolves the window.
C3_ExactTimeout ==
    \A r \in Started :
        \A i \in 1..Len(hist[r].emitted) :
            LET e == hist[r].emitted[i]
            IN  /\ InputEmits(r, e)
                /\ e.at <= win[r].timeout
                /\ e.key = None =>
                      /\ e.rt = None
                      /\ e.at = win[r].timeout

\* C3, as amended: an input accepted before the timeout's callback has run
\* emits the decision bound to it with RT equal to the time elapsed since
\* the window opened, and the timeout then never fires; with no such input
\* the window resolves with no decision and no RT when the callback runs,
\* at or after the configured timeout and never before it; an unbound input
\* never resolves the window.
C3_Timing ==
    \A r \in Started :
        \A i \in 1..Len(hist[r].emitted) :
            LET e == hist[r].emitted[i]
            IN  /\ InputEmits(r, e)
                /\ e.key = None =>
                      /\ e.rt = None
                      /\ e.by[1] = "timeout"
                      /\ e.at >= win[r].timeout

\* a window resolved by its timeout, whose callback ran after the configured
\* timeout had passed
C3_Witness ==
    \E r \in Started :
        /\ Len(hist[r].emitted) = 1
        /\ hist[r].emitted[1].key = None
        /\ hist[r].emitted[1].at > win[r].timeout


\* C4: a trial enters Fixation, Stimulus, Mask, ResponseWindow, Feedback in
\* this order, each once; a phase is entered only after the one before it
\* was seen to complete; at most one phase of a trial is active, and it is
\* the last one entered; a trial that has returned went through all five.
C4_PhaseOrder ==
    \A r \in Started :
        LET entered == hist[r].entered
            completed == [i \in 1..Len(hist[r].completed) |-> hist[r].completed[i].phase]
            active == ActivePhases(r)
        IN  /\ IsPrefix(entered, PhaseOrder)
            /\ IsPrefix(completed, entered)
            /\ Len(entered) <= Len(completed) + 1
            /\ Cardinality(active) <= 1
            /\ active # {} =>
                  /\ Len(entered) = Len(completed) + 1
                  /\ active = {entered[Len(entered)]}
                  /\ runs[r].phase = entered[Len(entered)]
                  /\ trialContent = << r, runs[r].phase >>
            /\ hist[r].produced # None =>
                  entered = PhaseOrder /\ completed = PhaseOrder

\* the second main trial of a session is in its feedback phase, the four
\* phases before it complete
C4_Witness ==
    \E r \in Started :
        /\ runs[r].pc = "main"
        /\ runs[r].i = 1
        /\ ActivePhases(r) = {"Feedback"}
        /\ hist[r].entered = PhaseOrder
        /\ Len(hist[r].completed) = 4

\* the duration runTrial requests for a phase of the trial in hand
Requested(r, phase) ==
    CASE phase = "Fixation" -> CONFIG.fixationDuration
      [] phase = "Stimulus" -> runs[r].trialInfo.duration
      [] phase = "Mask" -> CONFIG.maskDuration
      [] phase = "Feedback" -> CONFIG.feedbackDuration

\* C5: a phase shown for a requested duration d on a display whose refreshes
\* are g apart resolves at the first refresh at which the elapsed time is at
\* least d: the elapsed time is a multiple of g, at least d, and one refresh
\* earlier it was less than d.
C5_TimingFloor ==
    \A r \in Started :
        \A i \in 1..Len(hist[r].completed) :
            LET c == hist[r].completed[i]
            IN  c.phase \in ShowPhases =>
                    /\ runs[r].phase # "none" => c.dur = Requested(r, c.phase)
                    /\ c.elapsed >= c.dur
                    /\ c.elapsed % env.gap = 0
                    /\ c.elapsed - env.gap < c.dur

\* a stimulus requested for 3 ticks on a display refreshed every 2 ticks has
\* resolved after 4
C5_Witness ==
    \E r \in Started :
        \E i \in 1..Len(hist[r].completed) :
            /\ hist[r].completed[i].phase = "Stimulus"
            /\ hist[r].completed[i].dur = 3
            /\ hist[r].completed[i].elapsed = 4
            /\ env.gap = 2

\* the decision a result's response stands for, and the one a lexicality
\* implies
DecisionOf(response) == IF response = Some(1) THEN "word" ELSE "nonword"

ImpliedDecision(lexicality) == IF lexicality = "word" THEN "word" ELSE "nonword"

\* what C9 says of one result
Scored(res) ==
    /\ res.accuracy = 1 <=>
          /\ res.response # None
          /\ DecisionOf(res.response) = ImpliedDecision(res.lexicality)
    /\ res.RT # None <=> res.response # None
    /\ res.response = None => res.accuracy = 0 /\ res.RT = None
    /\ res.accuracy \in {0, 1}

\* C9: in every result runTrial returns, practice or main, accuracy is 1
\* exactly when a decision was made and it is the one the lexicality implies,
\* and RT is present exactly when a decision was made; the results kept in
\* the session's list are such results.
C9_Scoring ==
    \A r \in Started :
        /\ hist[r].produced # None => Scored(hist[r].produced[1])
        /\ \A i \in 1..Len(runs[r].results) : Scored(runs[r].results[i])

\* a session with swapped keys has ended with a correct decision and a
\* timed-out trial in its list
C9_Witness ==
    \E r \in Started :
        /\ CONFIG.keyWord = "j"
        /\ runs[r].pc = "end"
        /\ \E i, j \in 1..Len(runs[r].results) :
              /\ runs[r].results[i].response = None
              /\ runs[r].results[j].accuracy = 1


(***************************************************************************)
(* Properties of the session and its sink.                                 *)
(***************************************************************************)
\* the runs with a trial in hand
Executing == { r \in Runs : runs[r].phase # "none" }

\* C6: at every instant at most one trial phase is active and at most one
\* trial is executing, however often the start button is clicked.
C6_SingleTimeline ==
    /\ Cardinality(Executing) <= 1
    /\ Cardinality({ r \in Runs : ActivePhases(r) # {} }) <= 1

\* two invocations of runExperiment run a trial each: the first shows its
\* stimulus while the second shows its fixation cross
C6_Witness ==
    /\ nextRun = 2
    /\ ActivePhases(1) = {"Stimulus"}
    /\ ActivePhases(2) = {"Fixation"}

\* C7: the controller never waits on a sink operation: no invocation of
\* runExperiment is suspended until an operation of the sink settles.
C7_NeverWaits ==
    \A op \in ops : runs[op.run].pc # "create"

\* the session is started, its createSession is in flight, time has passed,
\* and no trial has begun
C7_Witness ==
    \E op \in ops :
        /\ op.kind = "createSession"
        /\ runs[op.run].pc = "create"
        /\ hist[op.run].entered = <<>>
        /\ activeScreen = "welcome"
        /\ sinceFrame > 0

\* the result the session keeps for its n-th main trial, from the trial and
\* the response observed for it alone
ExpectedResult(r, n) ==
    LET info == runs[r].trials[n]
        seen == hist[r].observed[n]
    IN  mainResult(trialResult(CONFIG, info, seen.key, seen.rt,
                               isCorrect(CONFIG, info, seen.key)),
                   n - 1, runs[r].subjId)

\* C8: whatever sink operations fail, the result list holds one result per
\* main trial run so far, in the order of the trials, each a function of the
\* trial and the response alone; a session that has ended has run every
\* trial and its exported table is the table of that list; no trial is
\* written twice.
C8_SinkFailuresHarmless ==
    \A r \in Started :
        /\ Len(runs[r].results) = runs[r].i
        /\ Len(hist[r].observed) = runs[r].i
        /\ runs[r].i <= Len(runs[r].trials)
        /\ \A n \in 1..Len(runs[r].results) :
              runs[r].results[n] = ExpectedResult(r, n)
        /\ hist[r].writes <= Len(runs[r].results)
        /\ runs[r].pc = "end" =>
              /\ Len(runs[r].results) = runs[r].totalTrials
              /\ Len(runs[r].trials) = runs[r].totalTrials
              /\ runs[r].csv = Some(toCSV(runs[r].results, Columns))
              /\ Len(runs[r].csv[1]) = runs[r].totalTrials + 1

\* a session whose document was created has ended with all its results
\* although every write of a trial failed
C8_Witness ==
    \E r \in Started :
        /\ runs[r].pc = "end"
        /\ sessionDocId = r
        /\ hist[r].failed
        /\ hist[r].writes = Len(runs[r].results)
        /\ trialDocs = {}
        /\ ops = {}


(***************************************************************************)
(* Properties of generateTrials, checked under SpecGen.                    *)
(***************************************************************************)
\* the stimuli of the catalog in CONFIG
Stimuli ==
    { CONFIG.words[i] : i \in 1..Len(CONFIG.words) }
        \cup { CONFIG.pseudowords[i] : i \in 1..Len(CONFIG.pseudowords) }

\* how often the pair of a stimulus and a duration occurs in a list
Occurrences(trials, stimulus, duration) ==
    Cardinality({ i \in 1..Len(trials) :
                    trials[i].stimulus = stimulus /\ trials[i].duration = duration })

\* C10: the list generateTrials returns, and the list it holds after every
\* exchange of every shuffle, has (|words| + |pseudowords|) x |durations| x
\* repetitions entries, and every pair of a stimulus and a duration occurs
\* in it exactly `repetitions` times.
C10_Counts ==
    gen.pc # "idle" =>
        /\ Len(gen.trials) =
              (Len(CONFIG.words) + Len(CONFIG.pseudowords))
                  * Len(CONFIG.durations) * CONFIG.nReps
        /\ \A s \in Stimuli :
              \A d \in 1..Len(CONFIG.durations) :
                  Occurrences(gen.trials, s, CONFIG.durations[d]) = CONFIG.nReps
        /\ gen.pc = "returned" =>
              \A i \in 1..Len(gen.trials) : gen.trials[i].trialNumber = i - 1

\* a list of two repetitions is returned in an order other than the one it
\* was built in, after a shuffle that failed the constraint
C10_Witness ==
    /\ gen.pc = "returned"
    /\ CONFIG.nReps = 2
    /\ gen.attempt > 0
    /\ gen.trials # AddTrialNumbers(BuildTrials(CONFIG))


\* some run of more than K consecutive trials of the list has one lexicality
HasLongRun(trials, K) ==
    \E a \in 1..Len(trials) :
        /\ a + K <= Len(trials)
        /\ \A b \in a..(a + K) : trials[b].lexicality = trials[a].lexicality

\* the retry loop of generateTrials ended on an order that passed
PassedValidation == gen.pc \in {"number", "returned"} /\ gen.attempt < MaxAttempts

\* C11: a sequence generateTrials returns after some shuffle attempt passed
\* validation has no run of more than maxSameLexInRow consecutive trials of
\* one lexicality, and checkLexConstraint is true of exactly the lists with
\* no such run, for every list the shuffles produce.
C11_RunLength ==
    /\ PassedValidation => ~HasLongRun(gen.trials, CONFIG.maxSameLexInRow)
    /\ gen.pc # "idle" =>
          (checkLexConstraint(gen.trials, CONFIG.maxSameLexInRow)
              <=> ~HasLongRun(gen.trials, CONFIG.maxSameLexInRow))

\* four words and two pseudowords are returned after a first shuffle that
\* put the four words in a row and a second that did not
C11_Witness ==
    /\ gen.pc = "returned"
    /\ gen.attempt = 1
    /\ Len(gen.trials) = 6
    /\ ~HasLongRun(gen.trials, CONFIG.maxSameLexInRow)


\* what one step of the retry loop does with the order it holds: an order
\* that passes ends the loop, one that fails is shuffled again or, when no
\* attempt is left, kept; the list returned is the one the loop ended on
RetryStep ==
    /\ gen.pc = "shuffle" /\ gen.i <= 0 =>
          /\ gen'.trials = gen.trials
          /\ IF checkLexConstraint(gen.trials, CONFIG.maxSameLexInRow)
             THEN gen'.pc = "number" /\ gen'.attempt = gen.attempt
             ELSE /\ gen'.attempt = gen.attempt + 1
                  /\ gen'.pc = IF gen'.attempt = MaxAttempts THEN "number"
                               ELSE "shuffle"
    /\ gen.pc = "number" =>
          gen'.pc = "returned" /\ gen'.trials = AddTrialNumbers(gen.trials)

\* C12: generateTrials terminates, after at most the capped number of
\* shuffle-and-validate attempts; it stops at the first attempt whose order
\* passes the constraint, and when every attempt fails it returns the order
\* of the last shuffle.
C12_Terminates ==
    /\ <>(gen.pc = "returned")
    /\ [](gen.attempt <= MaxAttempts)
    /\ [][RetryStep]_vars

\* a list is returned after every attempt failed the constraint
C12_Witness ==
    /\ gen.pc = "returned"
    /\ gen.attempt = MaxAttempts
    /\ HasLongRun(gen.trials, CONFIG.maxSameLexInRow)


(***************************************************************************)
(* Properties of the practice block, the break and the result list.        *)
(***************************************************************************)
\* the stimuli of the practice catalog
PracticeStimuli == { PracticeItems[i].stimulus : i \in 1..Len(PracticeItems) }

\* the trials of the main block CONFIG asks for
MainCount ==
    CONFIG.nReps * (Len(CONFIG.words) + Len(CONFIG.pseudowords))
        * Len(CONFIG.durations)

\* C13: no practice trial is in the result list, in a trial write in flight
\* or stored, or in the exported table; totalTrials, locally and in the
\* session record, counts the main trials only, and completedTrials never
\* exceeds the main trials run; while the practice block runs nothing is
\* recorded or written.
C13_PracticeNotKept ==
    /\ \A r \in Started :
          /\ \A n \in 1..Len(runs[r].results) :
                runs[r].results[n].stimulus \notin PracticeStimuli
          /\ runs[r].pc \in {"practiceIntro", "practice", "practiceDone"} =>
                runs[r].results = <<>> /\ hist[r].writes = 0
          /\ runs[r].pc \notin {"idle", "aborted"} => runs[r].totalTrials = MainCount
          /\ runs[r].csv # None =>
                /\ Len(runs[r].csv[1]) = MainCount + 1
                /\ \A n \in 2..Len(runs[r].csv[1]) :
                      runs[r].csv[1][n][3] \notin PracticeStimuli
    /\ \A d \in trialDocs : d.stimulus \notin PracticeStimuli
    /\ \A op \in ops :
          op.kind = "addTrial" => op.payload.stimulus \notin PracticeStimuli
    /\ \A sid \in DOMAIN sessions :
          /\ sessions[sid].totalTrials = MainCount
          /\ sessions[sid].completedTrials <= runs[sid].i

\* a session with the practice block has ended; its two main trials are
\* stored and counted
C13_Witness ==
    \E r \in Started :
        /\ runs[r].pc = "end"
        /\ runs[r].includePractice
        /\ Len(runs[r].practiceTrials) = 2
        /\ Cardinality(trialDocs) = 2
        /\ r \in DOMAIN sessions
        /\ sessions[r].completedTrials = 2


IsBreak(g) == g[1] = "break"

\* the break gates run r has entered, each with the loop index it was
\* entered at
Breaks(r) == SelectSeq(hist[r].gates, IsBreak)

\* the main trial at the midpoint index of run r has started
MidpointStarted(r) ==
    LET mid == Len(runs[r].trials) \div 2
    IN  /\ runs[r].pc \in {"main", "end", "threw"}
        /\ runs[r].i > mid \/ (runs[r].i = mid /\ runs[r].phase # "none")

\* C14: with one repetition no break gate ever occurs; with more, the break
\* gate occurs once, at the loop index floor(N/2); while it waits no phase
\* is active and the midpoint trial has not begun; the midpoint trial runs
\* only after the gate was entered and its continue signal received.
C14_Break ==
    \A r \in Started :
        LET b == Breaks(r)
            mid == Len(runs[r].trials) \div 2
        IN  /\ Len(b) <= 1
            /\ CONFIG.nReps = 1 => b = <<>> /\ runs[r].pc # "break"
            /\ b # <<>> => b[1][2] = mid /\ CONFIG.nReps > 1
            /\ runs[r].pc = "break" =>
                  /\ Len(b) = 1
                  /\ runs[r].i = mid
                  /\ Len(runs[r].results) = mid
                  /\ runs[r].phase = "none"
                  /\ ActivePhases(r) = {}
                  /\ gate[r].open
            /\ CONFIG.nReps > 1 /\ MidpointStarted(r) =>
                  Len(b) = 1 /\ ~gate[r].open

\* with two repetitions the third of four trials shows its fixation cross
\* after the one break
C14_Witness ==
    \E r \in Started :
        /\ CONFIG.nReps = 2
        /\ runs[r].pc = "main"
        /\ runs[r].i = 2
        /\ runs[r].phase = "Fixation"
        /\ Breaks(r) = << << "break", 2 >> >>


\* the result at position k of run r describes the trial at position k of
\* the generated sequence and carries the number k - 1
InTrialOrder(r, k) ==
    LET res == runs[r].results[k]
        spec == runs[r].trials[k]
    IN  /\ res.trialNumber = k - 1
        /\ spec.trialNumber = k - 1
        /\ res.stimulus = spec.stimulus
        /\ res.lexicality = spec.lexicality
        /\ res.duration = spec.duration

\* one result per completed main trial, in trial order
OrderedResults ==
    \A r \in Started :
        /\ Len(runs[r].results) = Len(hist[r].observed)
        /\ Len(runs[r].results) = runs[r].i
        /\ Len(runs[r].results) <= Len(runs[r].trials)
        /\ \A k \in 1..Len(runs[r].results) : InTrialOrder(r, k)

\* a step leaves the result list of every run as it is or puts one result
\* at its end
AppendOnly ==
    \A r \in Runs :
        \/ runs'[r].results = runs[r].results
        \/ /\ Len(runs'[r].results) = Len(runs[r].results) + 1
           /\ SubSeq(runs'[r].results, 1, Len(runs[r].results)) = runs[r].results
           /\ runs[r].pc = "main"
           /\ runs[r].phase = "Feedback"

\* C15: at every point of a session the result list is append-only and in
\* trial order: the k-th result has trialNumber k - 1 and describes the k-th
\* trial of the generated sequence, and each completed main trial has
\* contributed exactly one result.
C15_ResultList == []OrderedResults /\ [][AppendOnly]_vars

\* a session of four trials has ended with its four results
C15_Witness ==
    \E r \in Started :
        /\ runs[r].pc = "end"
        /\ Len(runs[r].results) = 4
        /\ runs[r].results[4].trialNumber = 3

\* the trial documents stored under session sid
TrialsOf(sid) == { d \in trialDocs : d.sessionId = sid }

\* the invocation of runExperiment that created session sid has run its last
\* trial
RanLastTrial(sid) ==
    /\ runs[sid].pc \in {"end", "threw"}
    /\ Len(runs[sid].results) = Len(runs[sid].trials)

SessionState ==
    \A sid \in DOMAIN sessions :
        /\ sessions[sid].status \in {"in_progress", "completed"}
        /\ sessions[sid].status = "completed" => RanLastTrial(sid)
        /\ hist[sid].closed <= 1
        /\ sessions[sid].completedTrials <= Cardinality(TrialsOf(sid))

SessionStep ==
    /\ \A sid \in DOMAIN sessions :
        /\ sid \in DOMAIN sessions'
        /\ sessions[sid].status = "completed"
              => sessions'[sid].status = "completed"
        /\ sessions'[sid].completedTrials
              \in {sessions[sid].completedTrials,
                   sessions[sid].completedTrials + 1}
    /\ \A sid \in DOMAIN sessions' \ DOMAIN sessions :
        /\ sessions'[sid].status = "in_progress"
        /\ sessions'[sid].completedTrials = 0
        /\ runs[sid].pc = "create"
        /\ runs[sid].results = << >>

\* C16: the session record is created while its invocation has run no
\* trial; its status is in_progress until one finalize update, applied after
\* the invocation's last trial, makes it completed for good; completedTrials
\* never decreases, grows by one at a time and never exceeds the trial
\* documents stored under the session.
C16_SessionRecord == []SessionState /\ [][SessionStep]_vars

\* two invocations have finished and the later session was finalized
C16_Witness ==
    /\ \A r \in 1..MaxRuns : r \in Started /\ runs[r].pc = "end"
    /\ MaxRuns \in DOMAIN sessions
    /\ sessions[MaxRuns].status = "completed"

\* C17: once the quit signal is given, a run starts no further trial, the
\* trial in hand enters no further phase, and the results collected until
\* then stay in the result list, from which the table is exported.
C17_QuitHalts ==
    \A r \in Started :
        hist[r].quit # None =>
            LET q == hist[r].quit[1]
            IN  /\ TrialsStarted(r) = q.trials
                /\ runs[r].phase \in {q.phase, "none"}
                /\ IsPrefix(q.results, runs[r].results)
                /\ runs[r].csv # None
                      => runs[r].csv = Some(toCSV(runs[r].results, Columns))

\* Escape was pressed during the fixation cross of the first main trial, and
\* the session went on to its end screen with every trial run
C17_Witness ==
    \E r \in Started :
        /\ hist[r].quit # None
        /\ hist[r].quit[1].trials = 1
        /\ hist[r].quit[1].phase = "Fixation"
        /\ runs[r].pc = "end"
        /\ Len(runs[r].results) = Len(runs[r].trials)
        /\ Len(runs[r].results) > 1

\* a call of runExperiment returns at the username check
AbortStep ==
    \E r \in Runs : runs[r].pc = "idle" /\ runs'[r].pc = "aborted"

\* C18: a start attempt with an empty or blank username creates no session,
\* runs no trial, records no result and leaves the program's state, its
\* configuration and key binding included, as it was before the attempt.
C18_AbortClean ==
    [][AbortStep =>
         /\ CONFIG' = CONFIG
         /\ UNCHANGED << sessionDocId, sessions, trialDocs, ops >>
         /\ UNCHANGED << activeScreen, trialContent, shows, inputVars, todo >>
         /\ \A r \in Runs :
               /\ runs'[r].results = runs[r].results
               /\ runs'[r].phase = runs[r].phase]_vars

\* an attempt with a blank username and the swap box checked was turned
\* down, and the keys are exchanged
C18_Witness ==
    \E r \in Started :
        /\ runs[r].pc = "aborted"
        /\ hist[r].swap
        /\ CONFIG.keyWord = "j"
        /\ \A q \in Started : runs[q].pc = "aborted"

\* the runs whose session has started and has not reached its end screen
InSession ==
    { r \in Started : runs[r].pc \notin {"idle", "aborted", "end", "threw"} }

\* the binding the swap setting selects
SelectedBinding(swapped) ==
    IF swapped THEN [word |-> "j", nonword |-> "f"]
               ELSE [word |-> "f", nonword |-> "j"]

BindingInEffect == [word |-> CONFIG.keyWord, nonword |-> CONFIG.keyNonword]

\* C19: throughout a session the two decisions are bound to different
\* inputs, and the binding is the one the swap setting selected when the
\* session started: exchanged if and only if the box was checked then,
\* whatever start attempts came before; so it never changes in a session.
C19_BindingFixed ==
    /\ CONFIG.keyWord # CONFIG.keyNonword
    /\ \A r \in InSession : BindingInEffect = SelectedBinding(hist[r].swap)

\* a session that started with the swap box unchecked, after an attempt
\* that was turned down with the box checked, runs a trial
C19_Witness ==
    \E r, q \in Started :
        /\ q < r
        /\ runs[q].pc = "aborted" /\ hist[q].swap
        /\ runs[r].pc = "main" /\ ~hist[r].swap
        /\ win[r].open

\* the cross cells and the marginals of a summary
SummaryCells(summary) ==
    { summary.cells[lex][dur] : lex \in Lexicalities, dur \in summary.durations }
        \cup { summary.byLex[lex] : lex \in Lexicalities }
        \cup { summary.byDur[dur] : dur \in summary.durations }

\* C20: a cell or marginal over no result reports an undefined accuracy and
\* an undefined reaction time, never 0, in the summary of the end screen
\* (computeSummary) and in the grand means of the dashboard (recomputeAll).
C20_EmptyCellUndefined ==
    /\ \A r \in Started :
          runs[r].summary # None =>
              \A sc \in SummaryCells(runs[r].summary[1]) :
                  sc.n = 0 => sc.acc = None /\ sc.rt = None
    /\ trialDocs # {} =>
          \A c \in conditions :
              grandStats(trialDocs)[c].n = 0 =>
                  /\ grandStats(trialDocs)[c].acc = None
                  /\ grandStats(trialDocs)[c].meanRT = None

\* a session of words only has ended: the end screen has cells over no
\* result, and so has the dashboard, which has the session's trials
C20_Witness ==
    \E r \in Started :
        /\ runs[r].pc = "end"
        /\ runs[r].summary # None
        /\ runs[r].summary[1].byLex["pseudoword"].n = 0
        /\ runs[r].summary[1].byLex["word"].n = 2
        /\ Cardinality(trialDocs) = 2
        /\ \E c \in conditions : grandStats(trialDocs)[c].n = 0


(***************************************************************************)
(* Properties of the two aggregators and of the dashboard.                 *)
(***************************************************************************)
\* what the aggregators read of a result or of a trial document
Sample(t) ==
    [trialNumber |-> t.trialNumber, lexicality |-> t.lexicality,
     duration |-> t.duration, RT |-> t.RT, accuracy |-> t.accuracy]

\* the dashboard holds the results of run r, all of them and nothing else
SameResultSet(r) ==
    { Sample(t) : t \in dash.allTrials }
        = { Sample(runs[r].results[i]) : i \in 1..Len(runs[r].results) }

\* two means are both undefined, or both defined and equal
SameMean(a, b) ==
    \/ a = None /\ b = None
    \/ a # None /\ b # None /\ a[1].num * b[1].den = b[1].num * a[1].den

\* C21: on one result set, computeSummary and recomputeAll report the same
\* sample size, mean accuracy and mean reaction time for every cell of
\* lexicality and duration.
C21_SameCells ==
    \A r \in Started :
        runs[r].summary # None /\ dash.charts # None /\ SameResultSet(r) =>
            \A c \in conditions :
                c[2] \in runs[r].summary[1].durations =>
                    LET local == runs[r].summary[1].cells[c[1]][c[2]]
                        remote == dash.charts[1][c]
                    IN  /\ local.n = remote.n
                        /\ SameMean(local.acc, remote.acc)
                        /\ SameMean(local.rt, remote.meanRT)

\* both aggregators have run on the two results of a session, one of which
\* is a trial without a response
C21_Witness ==
    \E r \in Started :
        /\ runs[r].summary # None
        /\ dash.charts # None
        /\ SameResultSet(r)
        /\ Len(runs[r].results) = 2
        /\ runs[r].results[1].RT = None
        /\ runs[r].results[2].RT # None

\* the trials of the dashboard that have a decision and an RT in the clean
\* window, both ends included
InWindow ==
    { t \in dash.allTrials :
        t.RT # None /\ CleanMin <= t.RT[1] /\ t.RT[1] <= CleanMax }

\* the trials of a set that fall in the cell c
InCell(trials, c) ==
    { t \in trials : t.lexicality = c[1] /\ t.duration = c[2] }

\* the dashboard has recomputed since its latest trials snapshot
Recomputed == dash.since >= 1 /\ dash.charts # None

\* C22: in recomputeAll a result takes part in the statistics of its cell if
\* and only if it has an RT and the RT is in the clean window, both ends
\* included: the cell counts those results and no other, and its accuracy
\* and its RT are taken over them.
C22_CleanWindow ==
    Recomputed =>
        \A c \in conditions :
            LET part == InCell(InWindow, c)
                cell22 == dash.charts[1][c]
            IN  /\ cell22.n = Cardinality(part)
                /\ part # {} =>
                      cell22.acc = Some(Ratio(Cardinality({ t \in part : t.accuracy = 1 }),
                                              Cardinality(part)))
                /\ \A t \in InCell(dash.allTrials, c) \ part :
                      cell22 = grandStats(dash.allTrials \ {t})[c]

\* the dashboard has recomputed over two trials of one cell: one answered at
\* the upper end of the window, which counts, and one answered too fast
C22_Witness ==
    /\ Recomputed
    /\ \E c \in conditions :
        \E t, u \in InCell(dash.allTrials, c) :
          /\ t.RT = Some(CleanMax)
          /\ u.RT # None /\ u.RT[1] < CleanMin
          /\ dash.charts[1][c].n = 1

\* recomputeAll has run in this step
RecomputeStep == dash'.since = dash.since + 1

\* computeSummary has run in this step
SummaryStep == \E r \in Runs : runs[r].pc # runs'[r].pc /\ runs'[r].summary # None

\* an aggregation leaves what it reads as it is, and when it is run again
\* over the same set it leaves what it reported as it is
Idempotent ==
    /\ RecomputeStep =>
          /\ dash'.allTrials = dash.allTrials
          /\ dash'.allSessions = dash.allSessions
          /\ UNCHANGED << sessions, trialDocs >>
          /\ Recomputed =>
                /\ dash'.charts = dash.charts
                /\ dash'.participants = dash.participants
    /\ SummaryStep =>
          \A r \in Runs :
              /\ runs'[r].results = runs[r].results
              /\ runs[r].summary # None => runs'[r].summary = runs[r].summary

RECURSIVE SumOf(_)
SumOf(f) ==
    IF DOMAIN f = {} THEN 0
    ELSE LET x == CHOOSE y \in DOMAIN f : TRUE
         IN  f[x] + SumOf([y \in DOMAIN f \ {x} |-> f[y]])

\* the trials of a set that were scored correct
Correct(part) == { t \in part : t.accuracy = 1 }

\* the cell reports the size of a non-empty partition, the share of its
\* correct trials, and the mean RT of its correct trials, if it has any
Reports(n, acc, rt, part) ==
    /\ n = Cardinality(part)
    /\ acc # None
    /\ acc[1].num * Cardinality(part) = Cardinality(Correct(part)) * acc[1].den
    /\ IF Correct(part) = {}
       THEN rt = None
       ELSE /\ rt # None
            /\ rt[1].num * Cardinality(Correct(part))
                  = SumRT(Correct(part)) * rt[1].den

\* the results of run r as a set
ResultSet(r) == { runs[r].results[i] : i \in 1..Len(runs[r].results) }

\* C26: in both aggregators a non-empty cell reports the number of results
\* of its partition, the share of them with accuracy 1, and the mean RT of
\* those with accuracy 1, undefined when there is none; in computeSummary
\* the marginals are taken over the union of their cells, so that the n of a
\* marginal is the sum of the n of its cells.
C26_CellStatistics ==
    /\ \A r \in Started :
          runs[r].summary # None =>
              LET sm == runs[r].summary[1]
                  lexPart(lex) == { t \in ResultSet(r) : t.lexicality = lex }
                  durPart(dur) == { t \in ResultSet(r) : t.duration = dur }
              IN  /\ \A lex \in Lexicalities, dur \in sm.durations :
                        LET part == InCell(ResultSet(r), << lex, dur >>)
                            c26 == sm.cells[lex][dur]
                        IN  part # {} => Reports(c26.n, c26.acc, c26.rt, part)
                  /\ \A lex \in Lexicalities :
                        /\ lexPart(lex) # {} =>
                              Reports(sm.byLex[lex].n, sm.byLex[lex].acc,
                                      sm.byLex[lex].rt, lexPart(lex))
                        /\ sm.byLex[lex].n
                              = SumOf([dur \in sm.durations |-> sm.cells[lex][dur].n])
                  /\ \A dur \in sm.durations :
                        /\ Reports(sm.byDur[dur].n, sm.byDur[dur].acc,
                                   sm.byDur[dur].rt, durPart(dur))
                        /\ sm.byDur[dur].n
                              = SumOf([lex \in Lexicalities |-> sm.cells[lex][dur].n])
    /\ Recomputed =>
          \A c \in conditions :
              LET part == InCell(clean(dash.allTrials), c)
                  g26 == dash.charts[1][c]
              IN  part # {} => Reports(g26.n, g26.acc, g26.meanRT, part)

\* both aggregators have run over two answered trials of one cell, one
\* correct and one not
C26_Witness ==
    /\ Recomputed
    /\ runs[1].summary # None
    /\ \E c \in conditions :
          /\ dash.charts[1][c].n = 2
          /\ dash.charts[1][c].acc = Some(Ratio(1, 2))
          /\ c[2] \in runs[1].summary[1].durations
          /\ runs[1].summary[1].cells[c[1]][c[2]].n = 2
          /\ runs[1].summary[1].cells[c[1]][c[2]].rt # None

\* the trials listener has run and its timer has not
Armed == dash.recomputeTimer # 0 /\ dash.since = 0

\* recomputeAll has run since the latest trials snapshot, and no timer is left
Settled == dash.recomputeTimer # 0 /\ dash.since = 1 /\ dash.pending = {}

\* what holds of the debounce at every instant: recomputeAll has never run
\* less than the window after the latest trials snapshot, at most one timer
\* is pending, and after the latest snapshot it has run at most once, over
\* the trials of that snapshot
Debounced ==
    /\ dash.ranAt # None => dash.ranAt[1] >= Debounce
    /\ Cardinality(dash.pending) <= 1
    /\ dash.since <= 1
    /\ Armed <=> dash.pending # {}
    /\ dash.since = 1 /\ dash.allTrials # {} =>
          dash.charts = Some(grandStats(dash.allTrials))

\* a snapshot that arrives while a timer is pending takes that timer away:
\* no recomputation runs between the two arrivals
Coalesced ==
    dash'.recomputeTimer # dash.recomputeTimer /\ dash.pending # {} =>
        /\ dash.since = 0
        /\ dash'.pending \cap dash.pending = {}

\* C24 as stated: the one recomputation after a burst runs exactly one
\* debounce window after the last arrival of the burst.
C24_ExactWindow ==
    dash.since = 1 => dash.ranAt = Some(Debounce)

\* C24: recomputeAll never runs less than the debounce window after the
\* latest trials snapshot, at most one recomputation is pending, and a burst
\* of snapshots less than the window apart is followed by exactly one
\* recomputation, over the latest trials, which runs when the timer set by
\* the last snapshot runs its callback: one window after that snapshot or,
\* when the timer is late, later.
C24_Debounce ==
    /\ []Debounced
    /\ [][Coalesced]_vars
    /\ [](dash.since = 1 =>
             dash.ranAt[1] >= Debounce /\ dash.ranAt[1] <= Debounce + env.late)
    /\ [](Armed => <>Settled)

\* a burst of two snapshots one tick apart was followed by one
\* recomputation, over three trials, one window after the second snapshot
C24_Witness ==
    /\ Settled
    /\ dash.recomputeTimer >= 2
    /\ dash.ranAt = Some(Debounce)
    /\ Cardinality(dash.allTrials) = 3
    /\ dash.charts = Some(grandStats(dash.allTrials))

\* both listeners have run and no recomputation is pending
Quiescent == dash.heard /\ dash.recomputeTimer # 0 /\ dash.pending = {}

\* C28: once the arrivals have stopped and the debounce window has elapsed,
\* the participant panel, the charts and the status line are those of the
\* latest sessions snapshot and the latest trials snapshot, in whatever
\* order the notifications of the two listeners arrived.
C28_OrderIndependent ==
    Quiescent =>
        /\ dash.participants
              = Some(updateParticipantList(dash.allSessions, dash.allTrials))
        /\ dash.charts = IF dash.allTrials = {} THEN None
                         ELSE Some(grandStats(dash.allTrials))
        /\ dash.statusLine = updateStatusLine(dash.allSessions, dash.allTrials)

\* the dashboard is at rest after a recomputation, with two sessions and
\* their three trials; the second session is completed and ranked first
C28_Witness ==
    /\ Quiescent
    /\ dash.since = 1
    /\ Len(dash.allSessions) = 2
    /\ Cardinality(dash.allTrials) = 3
    /\ dash.participants # None
    /\ dash.participants[1].completed = 1
    /\ dash.participants[1].ranked[1].username = "p2"


(***************************************************************************)
(* The practice block, checked under SpecPractice.                         *)
(***************************************************************************)
\* run r has called generatePracticeTrials: it is in a practice trial or
\* has reached the screen that follows the block
PractiseGenerated(r) ==
    \/ runs[r].pc = "practice"
    \/ \E g \in DOMAIN hist[r].gates : hist[r].gates[g][1] = "practiceDone"

\* the elements of a list
Range(seq) == { seq[x] : x \in DOMAIN seq }

\* the least and the greatest of the configured durations
Shortest == CHOOSE d \in Range(CONFIG.durations) :
                \A e \in Range(CONFIG.durations) : d <= e
Longest == CHOOSE d \in Range(CONFIG.durations) :
               \A e \in Range(CONFIG.durations) : d >= e

\* the practice trial of the item at place i (from 1) of the catalog
Expected(i) ==
    LET items == CONFIG.practiceItems
    IN  Trial(items[i].stimulus, items[i].lexicality,
              IF 2 * i <= Len(items) + 1 THEN Shortest ELSE Longest)

\* the orders of n trials
Orders(n) == { f \in [1..n -> 1..n] : \A a, b \in 1..n : f[a] = f[b] => a = b }

AnswerHandlers == {"onKey", "onTapWord", "onTapNonword"}

\* an answer given during a displayed phase called nothing; every displayed
\* phase that completed ran for the duration requested, in the order of the
\* trial; a decision was emitted by a handler of the response window
Unheard ==
    \A r \in Started :
        /\ hist[r].early # None => hist[r].early[1].called = {}
        /\ IsPrefix(hist[r].entered, PhaseOrder)
        /\ \A i \in 1..Len(hist[r].completed) :
              hist[r].completed[i].phase \in ShowPhases =>
                  hist[r].completed[i].elapsed >= hist[r].completed[i].dur
        /\ \A i \in 1..Len(hist[r].emitted) :
              hist[r].emitted[i].key # None =>
                  hist[r].emitted[i].by[1] \in AnswerHandlers

\* a step that emits a result or sets the decision of a trial starts in the
\* response window; a step in which a handler of an input runs during a
\* displayed phase changes nothing of the trial
OnlyInWindow ==
    /\ \A r \in Runs :
          (\/ Len(hist'[r].emitted) > Len(hist[r].emitted)
           \/ runs'[r].key # runs[r].key /\ runs'[r].key # None) =>
              /\ runs[r].phase = "ResponseWindow"
              /\ win[r].open
    /\ \A c \in todo :
          (c.fn # "frame" /\ todo' = todo \ {c}
                /\ runs[c.run].phase \in ShowPhases) =>
              UNCHANGED << runs, shows, win, trialContent, hist >>

\* C25: an input that arrives during Fixation, Stimulus, Mask or Feedback
\* reaches no handler, so the phase runs on for its duration and the phases
\* keep their order, and it is not recorded as the decision: the decision of
\* a trial is set only by a step taken while its response window is open.
C25_InputOnlyInWindow == []Unheard /\ [][OnlyInWindow]_vars

\* the participant answered while the stimulus of the first trial was on
\* display, then in its response window; the session has ended with the
\* first trial answered and the second timed out
C25_Witness ==
    \E r \in Started :
        /\ runs[r].pc = "end"
        /\ hist[r].early # None
        /\ hist[r].early[1].phase = "Stimulus"
        /\ hist[r].early[1].trial = 1
        /\ Len(runs[r].results) = 2
        /\ runs[r].results[1].response # None
        /\ runs[r].results[2].response = None

(***************************************************************************)
(* The session record at the end, checked under SpecSink.                  *)
(***************************************************************************)
\* the record of session sid is final: completed, with as many trials
\* counted as announced and as stored under it
Settled29(sid) ==
    /\ sid \in DOMAIN sessions
    /\ sessions[sid].status = "completed"
    /\ sessions[sid].completedTrials = sessions[sid].totalTrials
    /\ sessions[sid].totalTrials = Cardinality(TrialsOf(sid))

\* no session counts more trials than are stored under it
CountedAreStored ==
    \A sid \in DOMAIN sessions :
        sessions[sid].completedTrials <= Cardinality(TrialsOf(sid))

\* C29: when the session was created and every sink operation succeeds, in
\* whatever order the trial writes, the increments and the finalize update
\* complete, the session record ends up completed for good with
\* completedTrials = totalTrials = the number of trial records stored under
\* it; and at every moment completedTrials is at most that number.
C29_SessionSettles ==
    /\ []CountedAreStored
    /\ \A sid \in Runs : [](sid \in DOMAIN sessions => <>[]Settled29(sid))

\* the finalize update was applied while a trial write and an increment
\* were still in flight: the session is completed with one trial counted
\* and one stored
C29_Witness ==
    \E sid \in DOMAIN sessions :
        /\ sessions[sid].status = "completed"
        /\ sessions[sid].completedTrials < sessions[sid].totalTrials
        /\ Cardinality(TrialsOf(sid)) < sessions[sid].totalTrials
        /\ \E op \in ops : op.kind = "addTrial"

(***************************************************************************)
(* Whose session a write goes to, checked under SpecOwner.                 *)
(***************************************************************************)
\* every operation in flight that writes a trial or updates a session comes
\* from an invocation whose session was created, and names that session
OwnWrites ==
    \A op \in ops :
        /\ op.kind = "addTrial" =>
              /\ op.run \in DOMAIN sessions
              /\ op.payload.sessionId = op.run
        /\ op.kind \in {"increment", "complete"} =>
              /\ op.run \in DOMAIN sessions
              /\ op.sid = op.run

\* a trial document that is stored, and a session document that is updated,
\* is stored or updated by an operation of the invocation that created the
\* session
OwnStep ==
    /\ \A d \in trialDocs' \ trialDocs :
          \E op \in ops \ ops' :
              /\ op.payload = d
              /\ op.run \in DOMAIN sessions
              /\ d.sessionId = op.run
    /\ \A sid \in DOMAIN sessions :
          sessions'[sid] # sessions[sid] =>
              \E op \in ops \ ops' : op.run = sid

\* C30: every trial record written carries the id of the session the same
\* invocation of runExperiment created, and an invocation whose session
\* creation failed writes no trial record and updates no session, however
\* often and whenever the start button is clicked.
C30_OwnSession == []OwnWrites /\ [][OwnStep]_vars

\* the session creation of the second invocation failed; both invocations
\* have ended and the sink has answered everything
C30_Witness ==
    /\ MaxRuns \in Started
    /\ \A r \in Started : runs[r].pc = "end"
    /\ hist[MaxRuns].failed
    /\ MaxRuns \notin DOMAIN sessions
    /\ 1 \in DOMAIN sessions
    /\ ops = {}
=============================================================================
